---- MODULE Spec2Model ----
(***************************************************************************)
(* A model of the VRP optimisation engine: the classical solver suite      *)
(* (classical_solver.py), the solution validator (sample_data.py), the     *)
(* QUBO decoder and the QAOA orchestrator with its fallback tiers          *)
(* (vrp_solver.py) and the ensemble parameter optimizer (optimizers.py).   *)
(*                                                                         *)
(* Locations are the integers 0..D-1 as in the source.  A route is a       *)
(* sequence of locations, a solution a sequence of routes.  Python's       *)
(* 0-based list positions are written 0-based in comments; the sequences   *)
(* themselves are TLA+ sequences (1-based).                                *)
(*                                                                         *)
(* Distances are floats in the source.  They are modelled exactly, as      *)
(* numbers r + s*sqrt(2) with integer r and s, which is closed under the   *)
(* additions the solvers perform and contains every distance of the        *)
(* instances used here (the optimal_test square has sides 1 and diagonals  *)
(* sqrt(2)).                                                               *)
(***************************************************************************)
EXTENDS Integers, Sequences, FiniteSets, TLC

VARIABLES problem, cl, qa, en

vars == <<problem, cl, qa, en>>

(***************************************************************************)
(* Bounds of the model.                                                    *)
(***************************************************************************)
\* largest number of locations of an instance given to a classical solver
MaxD == 4
\* largest fleet size
MaxVehicles == 3

(***************************************************************************)
(* Exact arithmetic on r + s*sqrt(2).                                      *)
(***************************************************************************)
Num(n) == [r |-> n, s |-> 0]

Root2 == [r |-> 0, s |-> 1]

Zero == Num(0)

CAdd(x, y) == [r |-> x.r + y.r, s |-> x.s + y.s]

CSub(x, y) == [r |-> x.r - y.r, s |-> x.s - y.s]

\* x < 0 for x = r + s*sqrt(2): decided on the squares when the signs differ
CNeg(x) ==
    IF x.r <= 0 /\ x.s <= 0 THEN x.r < 0 \/ x.s < 0
    ELSE IF x.r >= 0 /\ x.s >= 0 THEN FALSE
    ELSE IF x.r > 0 THEN x.r * x.r < 2 * x.s * x.s
    ELSE 2 * x.s * x.s < x.r * x.r

CLess(x, y) == CNeg(CSub(x, y))

CLeq(x, y) == ~CLess(y, x)

\* float('inf') of the source: a value no finite cost reaches
Inf == [inf |-> TRUE]

\* cost < best, where best may be float('inf')
LessThanBest(cost, best) == IF best = Inf THEN TRUE ELSE CLess(cost, best)

(***************************************************************************)
(* Sequence helpers.                                                       *)
(***************************************************************************)
Range(seq) == {seq[k] : k \in 1..Len(seq)}

\* seq with the element at (1-based) position k removed: np.delete, del
RemoveAt(seq, k) == SubSeq(seq, 1, k - 1) \o SubSeq(seq, k + 1, Len(seq))

\* list.insert(pos, x) for a 0-based pos within the list
InsertAt(seq, pos, x) == SubSeq(seq, 1, pos) \o <<x>> \o SubSeq(seq, pos + 1, Len(seq))

RECURSIVE Flatten(_)
Flatten(seqs) ==
    IF seqs = <<>> THEN <<>> ELSE Head(seqs) \o Flatten(Tail(seqs))

RECURSIVE SelectSeqNe(_, _)
\* [c for c in seq if c != x]
SelectSeqNe(seq, x) ==
    IF seq = <<>> THEN <<>>
    ELSE IF Head(seq) # x THEN <<Head(seq)>> \o SelectSeqNe(Tail(seq), x)
    ELSE SelectSeqNe(Tail(seq), x)

RECURSIVE Ascending(_, _)
\* the integers lo..hi as an ascending sequence: list(range(lo, hi + 1))
Ascending(lo, hi) == IF lo > hi THEN <<>> ELSE <<lo>> \o Ascending(lo + 1, hi)

NoDuplicates(seq) == \A a, b \in 1..Len(seq) : a # b => seq[a] # seq[b]

Max2(a, b) == IF a >= b THEN a ELSE b

Min2(a, b) == IF a <= b THEN a ELSE b

(***************************************************************************)
(* Problem instances.  VRPTestCase._calculate_distance_matrix takes the    *)
(* Euclidean distance of the coordinates; the solvers accept any matrix.   *)
(***************************************************************************)
\* sqrt(n) for the n that occur, n = k*k or n = 2*k*k
Sqrt(n) ==
    IF \E k \in 0..n : k * k = n
    THEN Num(CHOOSE k \in 0..n : k * k = n)
    ELSE [r |-> 0, s |-> CHOOSE k \in 0..n : 2 * k * k = n]

EuclideanMatrix(locations) ==
    [i \in 0..(Len(locations) - 1) |->
        [j \in 0..(Len(locations) - 1) |->
            IF i = j THEN Zero
            ELSE LET p == locations[i + 1]
                     q == locations[j + 1]
                 IN  Sqrt((q[1] - p[1]) * (q[1] - p[1]) + (q[2] - p[2]) * (q[2] - p[2]))]]

\* TEST_CASES["optimal_test"]: depot (0,0), customers (1,0), (0,1), (1,1)
OptimalTestLocations == <<<<0, 0>>, <<1, 0>>, <<0, 1>>, <<1, 1>>>>

OptimalTestVehicles == 2

Abs(n) == IF n < 0 THEN -n ELSE n

\* The distance matrices the model draws from: locations on a line, all
\* locations one unit apart, a symmetric matrix that breaks the triangle
\* inequality, and the optimal_test square.
Kinds == {"line", "unit", "far", "square"}

KindSizes(kind) == IF kind = "square" THEN {Len(OptimalTestLocations)} ELSE 2..MaxD

DistanceMatrix(kind, D) ==
    IF kind = "square" THEN EuclideanMatrix(OptimalTestLocations)
    ELSE [i \in 0..(D - 1) |-> [j \in 0..(D - 1) |->
            IF i = j THEN Zero
            ELSE IF kind = "line" THEN Num(Abs(i - j))
            ELSE IF kind = "unit" THEN Num(1)
            ELSE Num(i * j + 1)]]

DM == DistanceMatrix(problem.kind, problem.D)

(***************************************************************************)
(* ClassicalSolver: the helpers every classical solver inherits.           *)
(***************************************************************************)
RECURSIVE CalculateRouteCost(_, _)
\* _calculate_route_cost: the sum of the distances of consecutive stops
CalculateRouteCost(route, dm) ==
    IF Len(route) < 2 THEN Zero
    ELSE CAdd(dm[route[1]][route[2]], CalculateRouteCost(Tail(route), dm))

RECURSIVE CalculateSolutionCost(_, _)
CalculateSolutionCost(solution, dm) ==
    IF solution = <<>> THEN Zero
    ELSE CAdd(CalculateRouteCost(Head(solution), dm),
              CalculateSolutionCost(Tail(solution), dm))

\* _is_valid_solution: no location other than the depot occurs twice over all
\* routes, and the locations that occur are exactly the customers
IsValidSolution(solution, num_locations, depot_index) ==
    LET visits == SelectSeqNe(Flatten(solution), depot_index)
    IN  /\ NoDuplicates(visits)
        /\ Range(visits) = (0..(num_locations - 1)) \ {depot_index}

(***************************************************************************)
(* NearestNeighborSolver.solve                                             *)
(***************************************************************************)
\* (mutant) the farthest remaining customer instead of the nearest
ArgMinNearest_Farthest(dm, current, remaining) ==
    CHOOSE k \in 1..Len(remaining) :
        \A m \in 1..Len(remaining) : CLeq(dm[current][remaining[m]], dm[current][remaining[k]])

\* np.argmin(distance_matrix[current, remaining]): the first position of a
\* smallest distance (1-based here)
ArgMinNearest(dm, current, remaining) ==
    CHOOSE k \in 1..Len(remaining) :
        /\ \A m \in 1..Len(remaining) : CLeq(dm[current][remaining[k]], dm[current][remaining[m]])
        /\ \A m \in 1..(k - 1) : CLess(dm[current][remaining[k]], dm[current][remaining[m]])

RECURSIVE NNExtend(_, _, _, _)
\* the inner for loop: append the nearest remaining customer, count times
NNExtend(dm, route, remaining, count) ==
    IF count = 0 \/ remaining = <<>> THEN [route |-> route, remaining |-> remaining]
    ELSE LET k == ArgMinNearest(dm, route[Len(route)], remaining)
         IN  NNExtend(dm, Append(route, remaining[k]), RemoveAt(remaining, k), count - 1)

RECURSIVE NNVehicles(_, _, _, _, _, _)
\* for vehicle in range(num_vehicles): one route per vehicle while customers remain
NNVehicles(dm, num_vehicles, depot_index, vehicle, remaining, solution) ==
    IF vehicle >= num_vehicles \/ remaining = <<>>
    THEN [solution |-> solution, remaining |-> remaining]
    ELSE LET customers_for_this_route == Max2(1, Len(remaining) \div (num_vehicles - vehicle))
             ext == NNExtend(dm, <<depot_index>>, remaining,
                             Min2(customers_for_this_route, Len(remaining)))
         IN  NNVehicles(dm, num_vehicles, depot_index, vehicle + 1, ext.remaining,
                        Append(solution, Append(ext.route, depot_index)))

\* the cap on the length of a leftover route (classical_solver.py line 117)
LeftoverRouteCap == 3

RECURSIVE NNLeftover(_, _, _, _)
\* while len(remaining_customers) > 0: extra routes of at most 3 customers
NNLeftover(dm, depot_index, remaining, solution) ==
    IF remaining = <<>> THEN solution
    ELSE LET ext == NNExtend(dm, <<depot_index>>, remaining,
                             Min2(Len(remaining), LeftoverRouteCap))
         IN  NNLeftover(dm, depot_index, ext.remaining,
                        Append(solution, Append(ext.route, depot_index)))

NNSolution(dm, num_vehicles, depot_index) ==
    LET num_locations == Cardinality(DOMAIN dm)
        customers == RemoveAt(Ascending(0, num_locations - 1), depot_index + 1)
        first == NNVehicles(dm, num_vehicles, depot_index, 0, customers, <<>>)
    IN  NNLeftover(dm, depot_index, first.remaining, first.solution)

\* the dictionary solve returns; its validity flag is stored under "valid"
NearestNeighborSolve(dm, num_vehicles, depot_index) ==
    LET solution == NNSolution(dm, num_vehicles, depot_index)
    IN  [solution |-> solution,
         total_cost |-> CalculateSolutionCost(solution, dm),
         algorithm |-> "Nearest Neighbor",
         iterations |-> 1,
         num_routes |-> Len(solution),
         valid |-> IsValidSolution(solution, Cardinality(DOMAIN dm), depot_index)]

(***************************************************************************)
(* BranchAndBoundSolver                                                    *)
(***************************************************************************)
RECURSIVE AllPermutations(_)
\* itertools.permutations(seq), in the order it yields them
AllPermutations(seq) ==
    IF seq = <<>> THEN << <<>> >>
    ELSE LET WithFirst(k) ==
                 LET rest == AllPermutations(RemoveAt(seq, k))
                 IN  [m \in 1..Len(rest) |-> <<seq[k]>> \o rest[m]]
             Build[k \in 0..Len(seq)] ==
                 IF k = 0 THEN <<>> ELSE Build[k - 1] \o WithFirst(k)
         IN  Build[Len(seq)]

\* (mutant) every customer is put on the first vehicle, the others stay idle
GenerateSplits_SingleRoute(total_customers, num_vehicles) ==
    << <<total_customers>> >>

RECURSIVE GenerateSplits(_, _)
\* _generate_splits: the compositions of total_customers into num_vehicles
\* parts of at least one customer each (one part of any size for one vehicle)
GenerateSplits(total_customers, num_vehicles) ==
    IF num_vehicles = 1 THEN << <<total_customers>> >>
    ELSE LET WithFirst(i) ==
                 LET sub == GenerateSplits(total_customers - i, num_vehicles - 1)
                 IN  [m \in 1..Len(sub) |-> <<i>> \o sub[m]]
             Build[i \in 0..Max2(0, total_customers - 1)] ==
                 IF i = 0 THEN <<>> ELSE Build[i - 1] \o WithFirst(i)
         IN  Build[Max2(0, total_customers - 1)]

RECURSIVE SplitRoutes(_, _, _, _)
\* the routes of one candidate: perm cut at the split points
SplitRoutes(perm, split_points, start_idx, depot_index) ==
    IF split_points = <<>> THEN <<>>
    ELSE IF start_idx < Len(perm)
    THEN LET split == Head(split_points)
             route_customers == SubSeq(perm, start_idx + 1, Min2(Len(perm), start_idx + split))
             rest == SplitRoutes(perm, Tail(split_points), start_idx + split, depot_index)
         IN  IF route_customers # <<>>
             THEN << <<depot_index>> \o route_customers \o <<depot_index>> >> \o rest
             ELSE rest
    ELSE SplitRoutes(perm, Tail(split_points), start_idx, depot_index)

\* every (permutation, split) pair in the order the nested loops visit them
BnBCandidates(customers, num_vehicles, depot_index) ==
    LET perms == AllPermutations(customers)
        splits == GenerateSplits(Len(customers), num_vehicles)
        OfPerm(p) == [m \in 1..Len(splits) |-> SplitRoutes(perms[p], splits[m], 0, depot_index)]
        Build[p \in 0..Len(perms)] == IF p = 0 THEN <<>> ELSE Build[p - 1] \o OfPerm(p)
    IN  Build[Len(perms)]

\* (mutant) the search keeps the last candidate instead of the cheapest
BnBKeep_Last(cost, best) == TRUE

\* if current_cost < best_cost: keep the candidate
BnBKeep(cost, best) == LessThanBest(cost, best)

\* the instance size above which the search is not attempted (line 474)
MaxExactCustomers == 6

\* the largest len(distance_matrix) reported as is_optimal (line 557)
MaxOptimalLocations == 7

\* _branch_and_bound.  evaluated is the number of candidates the loops reach
\* before the wall-clock deadline passes (0: it has passed on entry).
BranchAndBound(dm, num_vehicles, depot_index, evaluated) ==
    LET num_locations == Cardinality(DOMAIN dm)
        customers == SelectSeqNe(Ascending(0, num_locations - 1), depot_index)
        none == [found |-> FALSE, best_cost |-> Inf, best_solution |-> <<>>]
    IN  IF evaluated = 0 THEN none
        ELSE IF Len(customers) > MaxExactCustomers
        THEN LET result == NearestNeighborSolve(dm, num_vehicles, depot_index)
             IN  [found |-> TRUE, best_cost |-> result.total_cost,
                  best_solution |-> result.solution]
        ELSE LET cands == BnBCandidates(customers, num_vehicles, depot_index)
                 Search[k \in 0..Len(cands)] ==
                     IF k = 0 THEN none
                     ELSE LET cost == CalculateSolutionCost(cands[k], dm)
                          IN  IF BnBKeep(cost, Search[k - 1].best_cost)
                              THEN [found |-> TRUE, best_cost |-> cost,
                                    best_solution |-> cands[k]]
                              ELSE Search[k - 1]
             IN  Search[Min2(evaluated, Len(cands))]

\* the number of candidates of an instance: a deadline that is never hit lets
\* the loops reach all of them
BnBAll(dm, num_vehicles, depot_index) ==
    LET customers == SelectSeqNe(Ascending(0, Cardinality(DOMAIN dm) - 1), depot_index)
    IN  Max2(1, Len(BnBCandidates(customers, num_vehicles, depot_index)))

\* BranchAndBoundSolver.solve
BranchAndBoundSolve(dm, num_vehicles, depot_index, evaluated) ==
    LET search == BranchAndBound(dm, num_vehicles, depot_index, evaluated)
        nn == NearestNeighborSolve(dm, num_vehicles, depot_index)
        best_solution == IF search.found THEN search.best_solution ELSE nn.solution
        best_cost == IF search.found THEN search.best_cost ELSE nn.total_cost
    IN  [solution |-> best_solution,
         total_cost |-> best_cost,
         algorithm |-> "Branch and Bound",
         is_optimal |-> Cardinality(DOMAIN dm) <= MaxOptimalLocations,
         is_valid |-> IsValidSolution(best_solution, Cardinality(DOMAIN dm), depot_index)]

(***************************************************************************)
(* GeneticAlgorithmSolver                                                  *)
(***************************************************************************)
\* the location _create_individual, _crossover and _mutate write and read as
\* the depot ("Assuming depot is 0", line 172)
AssumedDepot == 0

RECURSIVE SplitAmongVehicles(_, _, _, _, _, _)
\* the loop of _create_individual over the vehicles, on the shuffled customers
SplitAmongVehicles(customers, num_vehicles, i, start_idx, per_vehicle, remainder) ==
    IF i >= num_vehicles THEN <<>>
    ELSE LET extra == IF i < remainder THEN 1 ELSE 0
             end_idx == start_idx + per_vehicle + extra
         IN  IF start_idx < Len(customers)
             THEN LET vehicle_customers == SubSeq(customers, start_idx + 1, Min2(end_idx, Len(customers)))
                      rest == SplitAmongVehicles(customers, num_vehicles, i + 1, end_idx,
                                                 per_vehicle, remainder)
                  IN  IF vehicle_customers # <<>>
                      THEN << <<AssumedDepot>> \o vehicle_customers \o <<AssumedDepot>> >> \o rest
                      ELSE rest
             ELSE SplitAmongVehicles(customers, num_vehicles, i + 1, start_idx,
                                     per_vehicle, remainder)

\* _create_individual after random.shuffle has put the customers in the order shuffled
CreateIndividual(shuffled, num_vehicles) ==
    SplitAmongVehicles(shuffled, num_vehicles, 0, 0,
                       Len(shuffled) \div num_vehicles, Len(shuffled) % num_vehicles)

\* every individual _create_individual can return: one per outcome of the shuffle
Individuals(customers, num_vehicles) ==
    {CreateIndividual(p, num_vehicles) : p \in Range(AllPermutations(customers))}

\* the customers of an individual as _crossover and _mutate extract them
ExtractCustomers(individual) == SelectSeqNe(Flatten(individual), AssumedDepot)

\* _crossover raises ValueError when random.sample(range(size), 2) is asked for
\* two positions of fewer than two
CrossoverRaises(parent1, parent2) ==
    LET customers1 == ExtractCustomers(parent1)
        customers2 == ExtractCustomers(parent2)
    IN  /\ customers1 # <<>>
        /\ customers2 # <<>>
        /\ Min2(Len(customers1), Len(customers2)) < 2

\* the child customers of an order crossover copying positions start..end-1
\* (0-based) of parent1 and filling the other positions from parent2
ChildCustomers(customers1, customers2, start, end) ==
    LET size == Min2(Len(customers1), Len(customers2))
        slice == SubSeq(customers1, start + 1, end)
        remaining == SelectSeq(customers2, LAMBDA c : c \notin Range(slice))
        \* the number of positions outside the slice that lie before position i
        Before(i) == IF i < start THEN i ELSE i - (end - start)
        Filled(i) == (start <= i /\ i < end) \/ Before(i) < Len(remaining)
        At(i) == IF start <= i /\ i < end THEN customers1[i + 1]
                 ELSE remaining[Before(i) + 1]
        Collect[i \in 0..size] ==
            IF i = 0 THEN <<>>
            ELSE IF Filled(i - 1) THEN Append(Collect[i - 1], At(i - 1))
            ELSE Collect[i - 1]
    IN  Collect[size]

\* every child _crossover can return when it does not raise
CrossoverOutcomes(parent1, parent2) ==
    LET customers1 == ExtractCustomers(parent1)
        customers2 == ExtractCustomers(parent2)
        size == Min2(Len(customers1), Len(customers2))
    IN  IF customers1 = <<>> \/ customers2 = <<>> THEN {parent1}
        ELSE UNION {Individuals(ChildCustomers(customers1, customers2, cut[1], cut[2]), Len(parent1)) :
                        cut \in {c \in (0..(size - 1)) \X (0..(size - 1)) : c[1] < c[2]}}

\* every individual _mutate can return: the individual itself, or the customers
\* with two of them swapped, shuffled and split again
MutateOutcomes(individual) ==
    LET customers == ExtractCustomers(individual)
    IN  {individual} \cup
        (IF Len(customers) < 2 THEN {} ELSE Individuals(customers, Len(individual)))

\* the size of a selection tournament (line 183)
TournamentSize == 3

\* every individual _selection can return: a best of some tournament of three
\* distinct members (a larger fitness is a smaller cost)
SelectionOutcomes(population, dm) ==
    {population[w] : w \in {i \in 1..Len(population) :
        \E T \in SUBSET (1..Len(population)) :
            /\ Cardinality(T) = TournamentSize
            /\ i \in T
            /\ \A j \in T : CLeq(CalculateSolutionCost(population[i], dm),
                                 CalculateSolutionCost(population[j], dm))}}

\* _selection raises ValueError when the population has fewer than three members
SelectionRaises(population) == Len(population) < TournamentSize

\* np.argmin(costs): the first position of a cheapest individual
ArgMinCost(population, dm) ==
    CHOOSE k \in 1..Len(population) :
        /\ \A m \in 1..Len(population) :
               CLeq(CalculateSolutionCost(population[k], dm), CalculateSolutionCost(population[m], dm))
        /\ \A m \in 1..(k - 1) :
               CLess(CalculateSolutionCost(population[k], dm), CalculateSolutionCost(population[m], dm))

\* np.argsort(fitnesses)[-elite_size:]: the positions of the population by
\* ascending fitness (descending cost), the last elite_size of them.  The order
\* numpy gives equal fitnesses is not specified: every sorted order is an outcome.
EliteOutcomes(population, dm, elite_size) ==
    LET n == Len(population)
        Sorted(order) ==
            \A a, b \in 1..n : a < b =>
                CLeq(CalculateSolutionCost(population[order[b]], dm),
                     CalculateSolutionCost(population[order[a]], dm))
        orders == {o \in Range(AllPermutations(Ascending(1, n))) : Sorted(o)}
        \* a[-k:] is all of a when k = 0 or k >= len(a)
        first == IF elite_size = 0 \/ elite_size >= n THEN 1 ELSE n - elite_size + 1
    IN  {[k \in 1..(n - first + 1) |-> population[o[first + k - 1]]] : o \in orders}

\* the result dictionary of GeneticAlgorithmSolver.solve
GAResult(dm, depot_index, population, best_solution, best_cost, generations) ==
    LET found == best_solution # <<>>
        solution == IF found THEN best_solution ELSE population[1]
    IN  [solution |-> solution,
         total_cost |-> IF best_cost # Inf THEN best_cost
                        ELSE CalculateSolutionCost(population[1], dm),
         algorithm |-> "Genetic Algorithm",
         generations |-> generations,
         is_valid |-> IsValidSolution(solution, Cardinality(DOMAIN dm), depot_index)]

(***************************************************************************)
(* SimulatedAnnealingSolver                                                *)
(***************************************************************************)
\* the customers of a solution in the order _generate_neighbor meets them, each
\* once (the keys of route_assignments)
RECURSIVE FirstOccurrences(_)
FirstOccurrences(seq) ==
    IF seq = <<>> THEN <<>>
    ELSE LET init == FirstOccurrences(SubSeq(seq, 1, Len(seq) - 1))
             last == seq[Len(seq)]
         IN  IF last \in Range(init) THEN init ELSE Append(init, last)

\* route_assignments: for each customer the (0-based) route that holds it last
RouteAssignments(solution) ==
    [c \in Range(ExtractCustomers(solution)) |->
        (CHOOSE r \in 1..Len(solution) :
            /\ c \in Range(solution[r])
            /\ \A q \in (r + 1)..Len(solution) : c \notin Range(solution[q])) - 1]

\* "Rebuild solution based on new assignments": the customers of each route in
\* the order of the keys, the depot put around them, empty routes dropped
RebuildSolution(solution, assignments) ==
    LET keys == FirstOccurrences(ExtractCustomers(solution))
        RouteOf(r) == SelectSeq(keys, LAMBDA c : assignments[c] = r)
        Collect[r \in 0..Len(solution)] ==
            IF r = 0 THEN <<>>
            ELSE IF RouteOf(r - 1) # <<>>
            THEN Append(Collect[r - 1], <<AssumedDepot>> \o RouteOf(r - 1) \o <<AssumedDepot>>)
            ELSE Collect[r - 1]
    IN  Collect[Len(solution)]

\* route with its positions i..j (0-based, inclusive) reversed
ReverseSegment(route, i, j) ==
    [k \in 1..Len(route) |-> IF i + 1 <= k /\ k <= j + 1 THEN route[(i + 1) + (j + 1) - k] ELSE route[k]]

\* the shortest route the 2-opt move reverses a segment of is longer than this (line 355)
TwoOptMinLen == 4

\* Every outcome of _generate_neighbor(solution): the move drawn, the neighbour
\* it returns and the list its argument is afterwards (the 2-opt move reverses
\* the segment in the argument's own route, and returns the copy made before).
NeighborOutcomes(solution) ==
    LET customers == ExtractCustomers(solution)
        assignments == RouteAssignments(solution)
        \* route_idx is the route the 2-opt move drew (1-based), 0 for the other moves
        same(move_type, neighbor) ==
            [move_type |-> move_type, route_idx |-> 0, neighbor |-> neighbor,
             argument |-> solution]
        swaps == {same("swap", RebuildSolution(solution,
                        [assignments EXCEPT ![customers[ab[1]]] = assignments[customers[ab[2]]],
                                            ![customers[ab[2]]] = assignments[customers[ab[1]]]])) :
                     ab \in {x \in (1..Len(customers)) \X (1..Len(customers)) : x[1] # x[2]}}
        relocations == {same("relocate", RebuildSolution(solution, [assignments EXCEPT ![c] = r])) :
                           c \in Range(customers), r \in 0..(Len(solution) - 1)}
        two_opts == UNION {
            IF Len(solution[r]) > TwoOptMinLen
            THEN {[move_type |-> "two_opt", route_idx |-> r, neighbor |-> solution,
                   argument |-> [solution EXCEPT ![r] = ReverseSegment(solution[r], ij[1], ij[2])]] :
                      ij \in {x \in (1..(Len(solution[r]) - 2)) \X (1..(Len(solution[r]) - 2)) :
                                  x[1] < x[2]}}
            ELSE {[same("two_opt", RebuildSolution(solution, assignments)) EXCEPT !.route_idx = r]} :
                r \in 1..Len(solution)}
    IN  IF Len(customers) < 2 THEN {same("none", solution)}
        ELSE swaps \cup relocations \cup two_opts

\* the result dictionary of SimulatedAnnealingSolver.solve
SAResult(dm, depot_index, best_solution, best_cost, iteration, coolings) ==
    [solution |-> best_solution,
     total_cost |-> best_cost,
     algorithm |-> "Simulated Annealing",
     iterations |-> iteration,
     final_temperature |-> coolings,
     is_valid |-> IsValidSolution(best_solution, Cardinality(DOMAIN dm), depot_index)]

(***************************************************************************)
(* VRPQUBOFormulation: the variable map and decode_solution                *)
(***************************************************************************)
\* _create_variable_mapping: index_to_var as the sequence of the edges (i, j),
\* i # j, in the order the nested loops number them (bit idx is position idx + 1)
IndexToVar(num_locations) ==
    LET Row(i) == [k \in 1..(num_locations - 1) |-> <<i, IF k - 1 < i THEN k - 1 ELSE k>>]
        Build[i \in 0..num_locations] == IF i = 0 THEN <<>> ELSE Build[i - 1] \o Row(i - 1)
    IN  Build[num_locations]

\* num_qubits = len(var_index)
NumQubits(num_locations) == Len(IndexToVar(num_locations))

\* every bit string of the given length, as a sequence of 0 and 1
BitStrings(n) == [1..n -> {0, 1}]

\* "Step 1" and "Step 2": graph[i], the heads of the active edges leaving i, in bit order
Graph(bit_string, num_locations) ==
    LET index_to_var == IndexToVar(num_locations)
        Active(k) == k <= Len(bit_string) /\ bit_string[k] = 1
        HeadsOf(i) ==
            LET Collect[k \in 0..Len(index_to_var)] ==
                    IF k = 0 THEN <<>>
                    ELSE IF Active(k) /\ index_to_var[k][1] = i
                    THEN Append(Collect[k - 1], index_to_var[k][2])
                    ELSE Collect[k - 1]
            IN  Collect[Len(index_to_var)]
    IN  [i \in 0..(num_locations - 1) |-> HeadsOf(i)]

\* min(candidates, key=distance from current): the first of the nearest candidates
NearestCandidate(dm, current, candidates) ==
    candidates[CHOOSE k \in 1..Len(candidates) :
        /\ \A m \in 1..Len(candidates) : CLeq(dm[current][candidates[k]], dm[current][candidates[m]])
        /\ \A m \in 1..(k - 1) : CLess(dm[current][candidates[k]], dm[current][candidates[m]])]

\* the node the walk moves to from current: the depot when an edge leads there,
\* else the nearest unvisited head, else the first head
NextNode(graph, dm, depot_index, current, visited) ==
    LET next_nodes == graph[current]
        unvisited_candidates == SelectSeq(next_nodes, LAMBDA n : n \notin visited)
    IN  IF depot_index \in Range(next_nodes) THEN depot_index
        ELSE IF unvisited_candidates # <<>> THEN NearestCandidate(dm, current, unvisited_candidates)
        ELSE next_nodes[1]

RECURSIVE Walk(_, _, _, _, _, _, _)
\* the while loop of "Step 3"; returns the route, the node the walk stopped at
\* and the visited set
Walk(graph, dm, depot_index, route, current, visited, route_length) ==
    IF current = depot_index \/ current \in visited \/ route_length >= Cardinality(DOMAIN dm)
    THEN [route |-> route, current |-> current, visited |-> visited]
    ELSE LET extended == Append(route, current)
             seen == visited \cup {current}
         IN  IF graph[current] = <<>>
             THEN [route |-> extended, current |-> current, visited |-> seen]
             ELSE Walk(graph, dm, depot_index, extended,
                       NextNode(graph, dm, depot_index, current, seen), seen, route_length + 1)

\* "Step 3": one walk per unvisited head of a depot edge; a walk that reaches the
\* depot is closed, and a route of more than two stops is kept
ExtractRoutes(graph, dm, depot_index) ==
    LET depot_outgoing == IF depot_index \in DOMAIN graph THEN graph[depot_index] ELSE <<>>
        Step[k \in 0..Len(depot_outgoing)] ==
            IF k = 0 THEN [routes |-> <<>>, visited |-> {}]
            ELSE LET before == Step[k - 1]
                     start_node == depot_outgoing[k]
                 IN  IF start_node \in before.visited THEN before
                     ELSE LET w == Walk(graph, dm, depot_index, <<depot_index>>, start_node,
                                        before.visited, 0)
                              route == IF w.current = depot_index
                                       THEN Append(w.route, depot_index) ELSE w.route
                          IN  [routes |-> IF Len(route) > 2 THEN Append(before.routes, route)
                                          ELSE before.routes,
                               visited |-> w.visited]
    IN  Step[Len(depot_outgoing)]

\* the members of a set of locations in ascending order (the order in which
\* CPython iterates a set of small non-negative integers)
SetInOrder(S, num_locations) == SelectSeq(Ascending(0, num_locations - 1), LAMBDA c : c \in S)

\* the cheapest-insertion loop shared by decode_solution "Step 4" and
\* _add_missed_customers: each missed customer goes after the depot of the first
\* route of least insertion cost among those shorter than num_locations, or
\* into a new route of its own
InsertMissed(routes, missed, dm, depot_index) ==
    LET num_locations == Cardinality(DOMAIN dm)
        InsertionCost(route, customer) ==
            CSub(CAdd(dm[route[1]][customer], dm[customer][route[2]]), dm[route[1]][route[2]])
        Fits(routes_, i) == Len(routes_[i]) < num_locations
        Best(routes_, customer) ==
            IF \E i \in 1..Len(routes_) : Fits(routes_, i)
            THEN CHOOSE i \in 1..Len(routes_) :
                     /\ Fits(routes_, i)
                     /\ \A m \in 1..Len(routes_) : Fits(routes_, m) =>
                            CLeq(InsertionCost(routes_[i], customer), InsertionCost(routes_[m], customer))
                     /\ \A m \in 1..(i - 1) : Fits(routes_, m) =>
                            CLess(InsertionCost(routes_[i], customer), InsertionCost(routes_[m], customer))
            ELSE 0
        Step[k \in 0..Len(missed)] ==
            IF k = 0 THEN routes
            ELSE LET before == Step[k - 1]
                     customer == missed[k]
                     best_route_idx == Best(before, customer)
                 IN  IF best_route_idx > 0
                     THEN [before EXCEPT ![best_route_idx] = InsertAt(before[best_route_idx], 1, customer)]
                     ELSE Append(before, <<depot_index, customer, depot_index>>)
    IN  Step[Len(missed)]

\* routes.sort(key=len): a stable sort by length
SortByLen(routes) ==
    LET Insert(sorted, route) ==
            LET pos == Cardinality({i \in 1..Len(sorted) : Len(sorted[i]) <= Len(route)})
            IN  SubSeq(sorted, 1, pos) \o <<route>> \o SubSeq(sorted, pos + 1, Len(sorted))
        Build[k \in 0..Len(routes)] == IF k = 0 THEN <<>> ELSE Insert(Build[k - 1], routes[k])
    IN  Build[Len(routes)]

\* VRPQUBOFormulation._merge_routes: each route not yet used absorbs every later
\* unused route whose joining (last stop of the first and first stop of the
\* second dropped) fits in num_locations stops and repeats no location
MergeRoutes(routes, num_vehicles, num_locations) ==
    IF Len(routes) <= num_vehicles THEN routes
    ELSE LET sorted == SortByLen(routes)
             n == Len(sorted)
             Absorb(i, used) ==
                 LET Inner[j \in i..n] ==
                         IF j = i THEN [current_route |-> sorted[i], used |-> used \cup {i}]
                         ELSE LET before == Inner[j - 1]
                                  merged_route == SubSeq(before.current_route, 1,
                                                         Len(before.current_route) - 1)
                                                  \o Tail(sorted[j])
                              IN  IF /\ j \notin before.used
                                     /\ Len(before.current_route) + Len(sorted[j]) - 2 <= num_locations
                                     /\ NoDuplicates(merged_route)
                                  THEN [current_route |-> merged_route, used |-> before.used \cup {j}]
                                  ELSE before
                 IN  Inner[n]
             Outer[i \in 0..n] ==
                 IF i = 0 THEN [merged_routes |-> <<>>, used |-> {}]
                 ELSE IF i \in Outer[i - 1].used THEN Outer[i - 1]
                 ELSE LET a == Absorb(i, Outer[i - 1].used)
                      IN  [merged_routes |-> Append(Outer[i - 1].merged_routes, a.current_route),
                           used |-> a.used]
         IN  Outer[n].merged_routes

\* decode_solution
DecodeSolution(bit_string, dm, num_vehicles, depot_index) ==
    LET num_locations == Cardinality(DOMAIN dm)
        extracted == ExtractRoutes(Graph(bit_string, num_locations), dm, depot_index)
        missed == ((0..(num_locations - 1)) \ {depot_index}) \ extracted.visited
        routes == InsertMissed(extracted.routes, SetInOrder(missed, num_locations), dm, depot_index)
    IN  IF Len(routes) > num_vehicles THEN MergeRoutes(routes, num_vehicles, num_locations)
        ELSE routes

(***************************************************************************)
(* validate_solution (sample_data.py)                                      *)
(***************************************************************************)
\* the first customer validate_solution counts: set(range(1, num_locations))
FirstCustomer == 1

\* the local copy of a route with the depot put in front and behind where missing
NormalizedRoute(route, depot) ==
    LET fronted == IF route = <<>> \/ route[1] # depot THEN <<depot>> \o route ELSE route
    IN  IF fronted[Len(fronted)] # depot THEN Append(fronted, depot) ELSE fronted

\* route[1:-1]
Interior(route) == SubSeq(route, 2, Len(route) - 1)

ValidateSolution(solution, dm, depot) ==
    LET num_locations == Cardinality(DOMAIN dm)
        all_customers == FirstCustomer..(num_locations - 1)
        visited_customers ==
            UNION {Range(Interior(NormalizedRoute(solution[r], depot))) \ {depot} : r \in 1..Len(solution)}
        unvisited == all_customers \ visited_customers
        visits == SelectSeqNe(Flatten(solution), depot)
        duplicate_visits ==
            SelectSeq(FirstOccurrences(visits),
                      LAMBDA c : Cardinality({k \in 1..Len(visits) : visits[k] = c}) > 1)
        route_costs == [r \in 1..Len(solution) |->
                           CalculateRouteCost(NormalizedRoute(solution[r], depot), dm)]
        Total[r \in 0..Len(solution)] ==
            IF r = 0 THEN Zero ELSE CAdd(Total[r - 1], route_costs[r])
    IN  [is_valid |-> unvisited = {} /\ duplicate_visits = <<>>,
         total_cost |-> Total[Len(solution)],
         route_costs |-> route_costs,
         num_routes |-> Len(solution),
         unvisited_customers |-> unvisited,
         duplicate_visits |-> duplicate_visits,
         solution |-> solution]

(***************************************************************************)
(* QAOAVRPSolver: the repair pass and the three tiers of solve             *)
(***************************************************************************)
\* the attributes QAOAVRPSolver.__init__ sets on the solver
SolverAttributes ==
    {"p_layers", "shots", "seed", "simulator",
     "_hamiltonian_cache", "_circuit_cache", "_problem_hash_cache"}

\* QAOAVRPSolver._merge_routes reads self.num_vehicles before anything else:
\* it raises AttributeError when the solver has no such attribute
SolverMergeRoutesRaises == "num_vehicles" \notin SolverAttributes

\* _validate_and_optimize_routes raises when it has to merge and the merge raises
ValidateAndOptimizeRaises(routes, num_vehicles) ==
    Len(routes) > num_vehicles /\ SolverMergeRoutesRaises

\* _validate_and_optimize_routes when the route count is within the fleet:
\* the customers not in the interior of any route are inserted
ValidateAndOptimizeRoutes(routes, dm, num_vehicles, depot_index) ==
    LET num_locations == Cardinality(DOMAIN dm)
        all_customers == (0..(num_locations - 1)) \ {depot_index}
        visited_customers == UNION {Range(Interior(routes[r])) \ {depot_index} : r \in 1..Len(routes)}
        missed_customers == all_customers \ visited_customers
    IN  InsertMissed(routes, SetInOrder(missed_customers, num_locations), dm, depot_index)

\* the largest num_qubits solve accepts (vrp_solver.py line 401)
QubitLimit == 20

\* the optimizer names create_optimizer knows (optimizers.py), and one it does not;
\* every known name behaves alike in solve
OptimizerNames == {"SPSA", "NoSuchOptimizer"}

CreateOptimizerRaises(optimizer_name) == optimizer_name = "NoSuchOptimizer"

\* f'QAOA-{optimizer_name}' and its suffixed forms, as the parts between the dashes
PrimaryTag(optimizer_name) == <<"QAOA", optimizer_name>>

\* (mutant) the fallback result tagged like a primary one
FallbackTag_Unsuffixed(optimizer_name) == <<"QAOA", optimizer_name>>

FallbackTag(optimizer_name) == <<"QAOA", optimizer_name, "Fallback">>

EmergencyTag(optimizer_name) == <<"QAOA", optimizer_name, "EmergencyFallback">>

\* the result of the primary tier (lines 528-573)
PrimaryResult(routes, dm, depot_index, optimizer_name, best_bitstring) ==
    LET validation == ValidateSolution(routes, dm, depot_index)
    IN  [solution |-> routes,
         total_cost |-> CalculateSolutionCost(routes, dm),
         algorithm |-> PrimaryTag(optimizer_name),
         best_measurement |-> best_bitstring,
         is_valid |-> validation.is_valid,
         validation |-> validation]

\* the result of the classical-fallback tier (lines 595-606): NearestNeighborSolver
\* stores its flag under "valid", so .get('is_valid', True) is the default
FallbackResult(classical_result, optimizer_name) ==
    [solution |-> classical_result.solution,
     total_cost |-> classical_result.total_cost,
     algorithm |-> FallbackTag(optimizer_name),
     fallback_used |-> TRUE,
     is_valid |-> IF "is_valid" \in DOMAIN classical_result THEN classical_result.is_valid ELSE TRUE]

\* the routes of the emergency tier: for i in range(1, len(distance_matrix)): [0, i, 0]
SimpleSolution(num_locations) == [i \in 1..(num_locations - 1) |-> <<0, i, 0>>]

\* the result of the emergency tier (lines 630-641)
EmergencyResult(dm, optimizer_name) ==
    LET simple_solution == SimpleSolution(Cardinality(DOMAIN dm))
    IN  [solution |-> simple_solution,
         total_cost |-> CalculateSolutionCost(simple_solution, dm),
         algorithm |-> EmergencyTag(optimizer_name),
         fallback_used |-> TRUE,
         is_valid |-> TRUE]

(***************************************************************************)
(* The classical solver suite as a state machine: one call of solve of one *)
(* solver on one instance.  The random draws of the Genetic Algorithm and  *)
(* of Simulated Annealing are choices of the step that makes them.         *)
(***************************************************************************)
\* bounds on the solver parameters: generations, population_size and elite_size
\* of the Genetic Algorithm, max_iterations of Simulated Annealing and the number
\* of coolings after which its temperature is at or below final_temp
MaxGenerations == 1

PopulationSize == 3

EliteSize == 1

MaxIterations == 2

CoolingsToFinal == 2

NoResult == [none |-> TRUE]

NoNeighbor == [move_type |-> "none", route_idx |-> 0, passed |-> <<>>, argument |-> <<>>, neighbor |-> <<>>,
               is_valid |-> TRUE]

Idle == [solver |-> "none", pc |-> "idle"]

\* the instances: a distance matrix, a fleet size and a depot.  ndarray tells
\* whether the matrix is a numpy array, as the solvers' signatures say, or a
\* nested list, which len() and m[i][j] accept as well.
Instances(sizes, fleets) ==
    {[kind |-> k, D |-> d, num_vehicles |-> v, depot_index |-> x, ndarray |-> a] :
        k \in Kinds, d \in sizes, v \in fleets, x \in 0..(MaxD - 1), a \in BOOLEAN}

WellFormed(p) == p.D \in KindSizes(p.kind) /\ p.depot_index < p.D

Customers == (0..(problem.D - 1)) \ {problem.depot_index}

ClassicalCall(solver) ==
    [solver |-> solver, pc |-> "start",
     \* parameters: GA generations, SA max_iterations, and the number of
     \* candidates Branch and Bound reaches before its deadline
     generations |-> 0, max_iterations |-> 0, evaluated |-> 0,
     \* GA locals, and the least cost among the individuals of the populations
     \* the loop has evaluated so far
     population |-> <<>>, generation |-> 0, least_evaluated |-> Inf,
     \* SA locals
     current_solution |-> <<>>, current_cost |-> Zero, coolings |-> 0, iteration |-> 0,
     \* the latest call of _generate_neighbor: the move, the argument as it was
     \* passed and as it was left, the neighbour returned and its validity
     generated |-> NoNeighbor,
     \* both
     best_solution |-> <<>>, best_cost |-> Inf,
     result |-> NoResult]

\* a call of solve of one of the given solvers on a well-formed instance
InitCall(solvers) ==
    /\ problem \in {p \in Instances(2..MaxD, 1..MaxVehicles) : WellFormed(p) /\ p.ndarray}
    /\ \E solver \in solvers, g \in 0..MaxGenerations, m \in 0..MaxIterations,
          e \in {0, 1, BnBAll(DM, problem.num_vehicles, problem.depot_index)} :
          cl = [ClassicalCall(solver) EXCEPT
                   !.generations = IF solver = "GA" THEN g ELSE 0,
                   !.max_iterations = IF solver = "SA" THEN m ELSE 0,
                   !.evaluated = IF solver = "BnB" THEN e ELSE 0]
    /\ qa = Idle
    /\ en = Idle

Return(result) == cl' = [cl EXCEPT !.pc = "done", !.result = result]

Raise == cl' = [cl EXCEPT !.pc = "raised"]

NNSolve ==
    /\ cl.solver = "NN" /\ cl.pc = "start"
    /\ Return(NearestNeighborSolve(DM, problem.num_vehicles, problem.depot_index))
    /\ UNCHANGED <<problem, qa, en>>

BnBSolve ==
    /\ cl.solver = "BnB" /\ cl.pc = "start"
    /\ Return(BranchAndBoundSolve(DM, problem.num_vehicles, problem.depot_index, cl.evaluated))
    /\ UNCHANGED <<problem, qa, en>>

\* "Initialize population": population_size individuals of the customers
GAInitialize ==
    /\ cl.solver = "GA" /\ cl.pc = "start"
    /\ \E population \in [1..PopulationSize ->
                            Individuals(SelectSeqNe(Ascending(0, problem.D - 1), problem.depot_index),
                                        problem.num_vehicles)] :
          cl' = [cl EXCEPT !.pc = "loop", !.population = population]
    /\ UNCHANGED <<problem, qa, en>>

\* the children one generation can append: a mutated crossover of two selected parents
Children(population, dm) ==
    LET parents == SelectionOutcomes(population, dm)
        crossed == UNION {CrossoverOutcomes(pp[1], pp[2]) :
                             pp \in {x \in parents \X parents : ~CrossoverRaises(x[1], x[2])}}
    IN  UNION {MutateOutcomes(c) : c \in crossed}

ReproductionRaises(population, dm) ==
    \/ SelectionRaises(population)
    \/ \E p1, p2 \in SelectionOutcomes(population, dm) : CrossoverRaises(p1, p2)

\* best_solution and best_cost after "Track best solution" of one generation
TrackBest(c, dm) ==
    LET k == ArgMinCost(c.population, dm)
        cost == CalculateSolutionCost(c.population[k], dm)
    IN  IF LessThanBest(cost, c.best_cost)
        THEN [c EXCEPT !.best_cost = cost, !.best_solution = c.population[k]]
        ELSE c

\* the least of the costs of the individuals of a population
LeastCost(population, dm) ==
    LET costs == {CalculateSolutionCost(population[k], dm) : k \in 1..Len(population)}
    IN  CHOOSE c \in costs : \A d \in costs : CLeq(c, d)

LeastOf(best, cost) == IF LessThanBest(cost, best) THEN cost ELSE best

\* one pass of the loop over the generations
GAGeneration ==
    /\ cl.solver = "GA" /\ cl.pc = "loop" /\ cl.generation < cl.generations
    /\ LET tracked == TrackBest(cl, DM)
       IN  \E elite \in EliteOutcomes(cl.population, DM, EliteSize) :
             LET needed == Max2(0, PopulationSize - Len(elite))
             IN  \/ /\ needed > 0
                    /\ ReproductionRaises(cl.population, DM)
                    /\ Raise
                 \/ /\ needed > 0 => ~SelectionRaises(cl.population)
                    /\ \E offspring \in [1..needed -> Children(cl.population, DM)] :
                          cl' = [tracked EXCEPT
                                    !.least_evaluated = LeastOf(cl.least_evaluated, LeastCost(cl.population, DM)),
                                    !.population = SubSeq(elite \o offspring, 1, PopulationSize),
                                    !.generation = cl.generation + 1]
    /\ UNCHANGED <<problem, qa, en>>

GAReturn ==
    /\ cl.solver = "GA" /\ cl.pc = "loop" /\ cl.generation >= cl.generations
    /\ Return(GAResult(DM, problem.depot_index, cl.population, cl.best_solution,
                       cl.best_cost, cl.generations))
    /\ UNCHANGED <<problem, qa, en>>

\* "Generate initial solution using nearest neighbor"
SAInitialize ==
    /\ cl.solver = "SA" /\ cl.pc = "start"
    /\ LET initial_result == NearestNeighborSolve(DM, problem.num_vehicles, problem.depot_index)
       IN  cl' = [cl EXCEPT !.pc = "loop",
                            !.current_solution = initial_result.solution,
                            !.current_cost = initial_result.total_cost,
                            !.best_solution = initial_result.solution,
                            !.best_cost = initial_result.total_cost]
    /\ UNCHANGED <<problem, qa, en>>

\* (mutant) the loop runs until the temperature is low, whatever the iteration count
SALoopGuard_TemperatureOnly == cl.coolings < CoolingsToFinal

SALoopGuard == cl.coolings < CoolingsToFinal /\ cl.iteration < cl.max_iterations

\* one pass of the while loop.  A neighbour that is no worse is accepted
\* (exp(-cost_diff / temperature) is 1 for cost_diff = 0 and random() < 1); a
\* worse one is accepted or not, by the draw.
SAIterate ==
    /\ cl.solver = "SA" /\ cl.pc = "loop" /\ SALoopGuard
    /\ \E out \in NeighborOutcomes(cl.current_solution), draw_accepts \in BOOLEAN :
          LET is_valid == IsValidSolution(out.neighbor, problem.D, problem.depot_index)
              mutated == [cl EXCEPT !.current_solution = out.argument,
                                    !.generated = [move_type |-> out.move_type,
                                                   route_idx |-> out.route_idx,
                                                   passed |-> cl.current_solution,
                                                   argument |-> out.argument,
                                                   neighbor |-> out.neighbor,
                                                   is_valid |-> is_valid]]
              neighbor_cost == CalculateSolutionCost(out.neighbor, DM)
              accept == CLeq(neighbor_cost, cl.current_cost) \/ draw_accepts
              accepted == [mutated EXCEPT !.current_solution = out.neighbor,
                                          !.current_cost = neighbor_cost]
              improved == IF CLess(neighbor_cost, cl.best_cost)
                          THEN [accepted EXCEPT !.best_solution = out.neighbor,
                                                !.best_cost = neighbor_cost]
                          ELSE accepted
              after == IF accept THEN improved ELSE mutated
          IN  IF ~is_valid
              THEN cl' = [mutated EXCEPT !.iteration = cl.iteration + 1]
              ELSE cl' = [after EXCEPT !.coolings = cl.coolings + 1,
                                       !.iteration = cl.iteration + 1]
    /\ UNCHANGED <<problem, qa, en>>

SAReturn ==
    /\ cl.solver = "SA" /\ cl.pc = "loop" /\ ~SALoopGuard
    /\ Return(SAResult(DM, problem.depot_index, cl.best_solution, cl.best_cost,
                       cl.iteration, cl.coolings))
    /\ UNCHANGED <<problem, qa, en>>

\* the deterministic solvers: Nearest Neighbor and Branch and Bound
InitExact == InitCall({"NN", "BnB"})

NextExact ==
    \/ NNSolve
    \/ BnBSolve

SpecExact == InitExact /\ [][NextExact]_vars

\* the randomised solvers: the Genetic Algorithm and Simulated Annealing
InitSearch == InitCall({"GA", "SA"})

NextSearch ==
    \/ GAInitialize
    \/ GAGeneration
    \/ GAReturn
    \/ SAInitialize
    \/ SAIterate
    \/ SAReturn

SpecSearch == InitSearch /\ [][NextSearch]_vars

(***************************************************************************)
(* compare_classical_algorithms: each algorithm of the list is run through  *)
(* solve_vrp_classical and create_classical_solver with the same keyword    *)
(* arguments, a failure becomes an error entry, and the summary names the   *)
(* cheapest of the entries that count as successful.                        *)
(***************************************************************************)
\* the list used when algorithms is None
DefaultAlgorithms == <<"nearest_neighbor", "genetic_algorithm", "simulated_annealing">>

\* the keyword arguments compare_classical_algorithms passes for every algorithm
CompareKwargs == {"generations", "max_iterations"}

\* the keyword parameters of the constructor of each solver class
InitParameters(algorithm) ==
    CASE algorithm = "genetic_algorithm" ->
             {"population_size", "generations", "mutation_rate", "elite_size"}
      [] algorithm = "simulated_annealing" ->
             {"initial_temp", "final_temp", "cooling_rate", "max_iterations"}
      [] algorithm = "branch_and_bound" -> {"max_time"}
      [] OTHER -> {}

\* create_classical_solver: NearestNeighborSolver() is built without the
\* keyword arguments, the other classes with all of them; a keyword the
\* constructor does not have is a TypeError
CreateClassicalSolver(algorithm, kwargs) ==
    IF algorithm = "nearest_neighbor" \/ kwargs \subseteq InitParameters(algorithm)
    THEN [created |-> TRUE, message |-> ""]
    ELSE [created |-> FALSE, message |-> "unexpected keyword argument"]

\* what solve of a solver that was built returns: Nearest Neighbor is
\* deterministic, the searches return one of the individuals
SolveOutcomes(algorithm, dm, num_vehicles, depot_index) ==
    LET customers == SelectSeqNe(Ascending(0, Cardinality(DOMAIN dm) - 1), depot_index)
    IN  CASE algorithm = "nearest_neighbor" ->
                 {NearestNeighborSolve(dm, num_vehicles, depot_index)}
          [] algorithm = "simulated_annealing" ->
                 {SAResult(dm, depot_index, s, CalculateSolutionCost(s, dm), 0, 0) :
                      s \in Individuals(customers, num_vehicles)}
          [] OTHER ->
                 {GAResult(dm, depot_index, <<s>>, s, CalculateSolutionCost(s, dm), 0) :
                      s \in Individuals(customers, num_vehicles)}

\* the entries solve_vrp_classical can leave in results for one algorithm
SolveVrpClassical(algorithm, kwargs, dm, num_vehicles, depot_index) ==
    LET solver == CreateClassicalSolver(algorithm, kwargs)
    IN  IF solver.created
        THEN SolveOutcomes(algorithm, dm, num_vehicles, depot_index)
        ELSE {[error |-> solver.message, success |-> FALSE]}

\* 'error' not in v and v.get('is_valid', True)
CountsAsSuccessful(v) ==
    /\ "error" \notin DOMAIN v
    /\ IF "is_valid" \in DOMAIN v THEN v.is_valid ELSE TRUE

\* the keys of successful_results, in the order of the list
SuccessfulAlgorithms(algorithms, results) ==
    LET Keep[k \in 0..Len(algorithms)] ==
            IF k = 0 THEN <<>>
            ELSE IF CountsAsSuccessful(results[algorithms[k]])
                 THEN Append(Keep[k - 1], algorithms[k])
                 ELSE Keep[k - 1]
    IN  Keep[Len(algorithms)]

\* min(keys, key = total_cost): the first key of the least cost
MinByTotalCost(keys, results) ==
    LET Best[k \in 1..Len(keys)] ==
            IF k = 1 THEN keys[1]
            ELSE IF CLess(results[keys[k]].total_cost, results[Best[k - 1]].total_cost)
                 THEN keys[k]
                 ELSE Best[k - 1]
    IN  Best[Len(keys)]

NoSummary == [none |-> TRUE]

Summary(algorithms, results) ==
    LET successful == SuccessfulAlgorithms(algorithms, results)
        best_algorithm == MinByTotalCost(successful, results)
    IN  IF successful = <<>> THEN NoSummary
        ELSE [best_algorithm |-> best_algorithm,
              best_cost |-> results[best_algorithm].total_cost,
              algorithms_tested |-> Len(algorithms),
              successful_algorithms |-> Len(successful)]

\* a call with the default list on a well-formed instance
InitCompare ==
    /\ problem \in {p \in Instances(2..MaxD, 1..MaxVehicles) : WellFormed(p) /\ p.ndarray}
    /\ cl = [solver |-> "compare", pc |-> "loop", algorithms |-> DefaultAlgorithms,
             position |-> 1, results |-> <<>>, summary |-> NoSummary]
    /\ qa = Idle
    /\ en = Idle

\* one pass of the loop over the algorithms
CompareRunAlgorithm ==
    /\ cl.solver = "compare" /\ cl.pc = "loop"
    /\ cl.position <= Len(cl.algorithms)
    /\ LET algorithm == cl.algorithms[cl.position]
       IN  \E result \in SolveVrpClassical(algorithm, CompareKwargs, DM,
                                            problem.num_vehicles, problem.depot_index) :
              cl' = [cl EXCEPT !.results = (algorithm :> result) @@ cl.results,
                               !.position = cl.position + 1]
    /\ UNCHANGED <<problem, qa, en>>

\* "Find best result" and the return
CompareSummarize ==
    /\ cl.solver = "compare" /\ cl.pc = "loop"
    /\ cl.position > Len(cl.algorithms)
    /\ cl' = [cl EXCEPT !.pc = "done", !.summary = Summary(cl.algorithms, cl.results)]
    /\ UNCHANGED <<problem, qa, en>>

NextCompare ==
    \/ CompareRunAlgorithm
    \/ CompareSummarize

SpecCompare == InitCompare /\ [][NextCompare]_vars

(***************************************************************************)
(* QAOAVRPSolver.solve as a state machine.  The stages follow the body of  *)
(* the try block; the quantum primitives (the Hamiltonian construction,    *)
(* the QAOA run, the simulator run) are external: each of them returns     *)
(* any bit strings, or raises.                                             *)
(***************************************************************************)
\* the largest instance whose bit strings are enumerated
MaxDecodeD == 3

\* the largest number of distinct bit strings a simulator run gives in the model
MaxSampled == 2

\* the number of top bit strings solve examines (line 488)
TopCandidates == 5

\* the largest number of shots of a simulator run in the model
MaxShots == 3

\* the number of shots the items of counts stand for
ShotsOf(counts) ==
    LET F[n \in 0..Len(counts)] == IF n = 0 THEN 0 ELSE F[n - 1] + counts[n][2]
    IN  F[Len(counts)]

\* get_counts() of the simulator run: the sampled bit strings in the order of
\* the dictionary, each with the number of shots that gave it
SimulatorCounts(num_qubits, shots) ==
    {counts \in UNION {[1..n -> BitStrings(num_qubits) \X (1..shots)] :
                          n \in 1..Min2(MaxSampled, shots)} :
        /\ \A i, j \in DOMAIN counts : i # j => counts[i][1] # counts[j][1]
        /\ ShotsOf(counts) = shots}

\* one step of the stable sort by descending frequency: the item goes behind
\* the items that are at least as frequent
InsertByFrequency(sorted, item) ==
    LET k == Cardinality({i \in DOMAIN sorted : sorted[i][2] >= item[2]})
    IN  SubSeq(sorted, 1, k) \o <<item>> \o SubSeq(sorted, k + 1, Len(sorted))

\* sorted(counts.items(), key=lambda x: x[1], reverse=True)
SortedByFrequency(counts) ==
    LET F[n \in 0..Len(counts)] ==
            IF n = 0 THEN <<>> ELSE InsertByFrequency(F[n - 1], counts[n])
    IN  F[Len(counts)]

\* (mutant) the candidates are taken from the least frequent end
TopBitstrings_LeastFrequentFirst(counts) ==
    LET sorted == SortedByFrequency(counts)
        reversed == [i \in DOMAIN sorted |-> sorted[Len(sorted) + 1 - i]]
    IN  SubSeq(reversed, 1, Min2(Len(reversed), TopCandidates))

\* line 488: the five most frequent items
TopBitstrings(counts) ==
    LET sorted == SortedByFrequency(counts)
    IN  SubSeq(sorted, 1, Min2(Len(sorted), TopCandidates))

\* line 516: max(counts.keys(), key=lambda x: counts[x]), the first of the
\* most frequent keys
MostFrequentKey(counts) ==
    LET i == CHOOSE i \in DOMAIN counts :
                 /\ \A j \in DOMAIN counts : counts[j][2] <= counts[i][2]
                 /\ \A j \in 1..(i - 1) : counts[j][2] < counts[i][2]
    IN  counts[i][1]

\* the smallest instance that needs more than QubitLimit bits
FirstInfeasibleD == CHOOSE d \in 2..(QubitLimit + 2) :
    /\ d * (d - 1) > QubitLimit
    /\ (d - 1) * (d - 2) <= QubitLimit

NoBits == <<-1>>

QuantumStages == {"BUILD_QUBO", "OPTIMIZE", "DECODE_PRIMARY", "DECODE_SAMPLED", "REPAIR", "VALIDATE"}

\* (mutant) an exception raised while the formulation is built leaves solve
Handler_SurfacesBuildFailure(stage) ==
    IF stage = "BUILD_QUBO" THEN "RAISED"
    ELSE IF stage \in QuantumStages THEN "FALLBACK_CLASSICAL"
    ELSE IF stage = "FALLBACK_CLASSICAL" THEN "EMERGENCY_FALLBACK"
    ELSE "RAISED"

\* where an exception raised in a stage is handled: the try block of solve by
\* the classical fallback, the fallback's try by the emergency tier, and the
\* emergency tier by nothing
Handler(stage) ==
    IF stage \in QuantumStages THEN "FALLBACK_CLASSICAL"
    ELSE IF stage = "FALLBACK_CLASSICAL" THEN "EMERGENCY_FALLBACK"
    ELSE "RAISED"

InitQAOA ==
    /\ problem \in {p \in Instances((2..MaxDecodeD) \cup {FirstInfeasibleD}, 1..MaxVehicles) :
                       p.kind # "square" /\ p.depot_index < p.D}
    /\ \E optimizer_name \in OptimizerNames :
          \* one shot per simulator run; runs of more shots are in SpecSampling
          qa = [pc |-> "BUILD_QUBO", optimizer_name |-> optimizer_name, shots |-> 1,
                measurement |-> NoBits, routes |-> <<>>, best_bitstring |-> NoBits,
                quantum_success |-> FALSE,
                \* the sampling: top_bitstrings, the number of them the loop
                \* has examined, and the most frequent key of counts
                top_bitstrings |-> <<>>, examined |-> 0, most_frequent |-> NoBits,
                \* the stage of the try block that raised, the tiers entered so
                \* far and the tier that built the result
                failed |-> "none", tiers |-> <<"quantum">>, producer |-> "none",
                result |-> NoResult]
    /\ cl = Idle
    /\ en = Idle

\* an exception raised in the current stage goes to its handler
Fail ==
    qa' = [qa EXCEPT !.pc = Handler(qa.pc),
                     !.failed = IF qa.pc \in QuantumStages THEN qa.pc ELSE qa.failed]

\* lines 389-412: the problem hash needs the ndarray method tobytes; the
\* formulation is refused above QubitLimit bits; create_hamiltonian is external
BuildQubo ==
    /\ qa.pc = "BUILD_QUBO"
    /\ IF ~problem.ndarray \/ NumQubits(problem.D) > QubitLimit
       THEN Fail
       ELSE \/ Fail
            \/ qa' = [qa EXCEPT !.pc = "OPTIMIZE"]
    /\ UNCHANGED <<problem, cl, en>>

\* lines 416-434: create_optimizer and the QAOA run, which ends with a best
\* measurement, with none, or with an exception
Optimize ==
    /\ qa.pc = "OPTIMIZE"
    /\ IF CreateOptimizerRaises(qa.optimizer_name)
       THEN Fail
       ELSE \/ Fail
            \/ \E m \in BitStrings(NumQubits(problem.D)) \cup {NoBits} :
                  qa' = [qa EXCEPT !.pc = "DECODE_PRIMARY", !.measurement = m]
    /\ UNCHANGED <<problem, cl, en>>

\* lines 436-445: decode the best measurement when there is one
DecodePrimary ==
    /\ qa.pc = "DECODE_PRIMARY"
    /\ IF qa.measurement # NoBits
       THEN LET routes == DecodeSolution(qa.measurement, DM, problem.num_vehicles,
                                         problem.depot_index)
            IN  qa' = [qa EXCEPT !.pc = IF routes = <<>> THEN "DECODE_SAMPLED" ELSE "REPAIR",
                                 !.routes = routes,
                                 !.best_bitstring = qa.measurement,
                                 !.quantum_success = TRUE]
       ELSE qa' = [qa EXCEPT !.pc = "DECODE_SAMPLED"]
    /\ UNCHANGED <<problem, cl, en>>

\* lines 481-484: the simulator run raises
SimulatorFails ==
    /\ qa.pc = "DECODE_SAMPLED" /\ qa.top_bitstrings = <<>>
    /\ Fail
    /\ UNCHANGED <<problem, cl, en>>

\* lines 481-489: the simulator run returns counts, and the top bit strings
\* are taken from them
RunCircuit ==
    /\ qa.pc = "DECODE_SAMPLED" /\ qa.top_bitstrings = <<>>
    /\ \E counts \in SimulatorCounts(NumQubits(problem.D), qa.shots) :
          qa' = [qa EXCEPT !.top_bitstrings = TopBitstrings(counts),
                           !.most_frequent = MostFrequentKey(counts)]
    /\ UNCHANGED <<problem, cl, en>>

\* lines 491-511: the next candidate of top_bitstrings is decoded and
\* validated; a valid one is adopted and ends the loop
ExamineCandidate ==
    /\ qa.pc = "DECODE_SAMPLED"
    /\ qa.examined < Len(qa.top_bitstrings)
    /\ LET bitstring == qa.top_bitstrings[qa.examined + 1][1]
           candidate_routes == DecodeSolution(bitstring, DM, problem.num_vehicles,
                                              problem.depot_index)
           validation == ValidateSolution(candidate_routes, DM, problem.depot_index)
           examined == [qa EXCEPT !.examined = qa.examined + 1]
       IN  IF validation.is_valid
           THEN qa' = [examined EXCEPT !.pc = IF candidate_routes = <<>> THEN "DECODE_SAMPLED"
                                              ELSE "REPAIR",
                                       !.routes = candidate_routes,
                                       !.best_bitstring = bitstring,
                                       !.quantum_success = TRUE]
           ELSE qa' = examined
    /\ UNCHANGED <<problem, cl, en>>

\* lines 513-521: no candidate validated: the most frequent one is decoded, and
\* an empty decode is an exception
NoValidCandidate ==
    /\ qa.pc = "DECODE_SAMPLED"
    /\ qa.top_bitstrings # <<>> /\ qa.examined = Len(qa.top_bitstrings)
    /\ LET routes == DecodeSolution(qa.most_frequent, DM, problem.num_vehicles,
                                    problem.depot_index)
       IN  IF routes = <<>>
           THEN qa' = [qa EXCEPT !.pc = Handler("DECODE_PRIMARY"), !.failed = "DECODE_PRIMARY",
                                 !.best_bitstring = qa.most_frequent]
           ELSE qa' = [qa EXCEPT !.pc = "REPAIR", !.routes = routes,
                                 !.best_bitstring = qa.most_frequent]
    /\ UNCHANGED <<problem, cl, en>>

\* line 524: the repair pass
Repair ==
    /\ qa.pc = "REPAIR"
    /\ IF ValidateAndOptimizeRaises(qa.routes, problem.num_vehicles)
       THEN Fail
       ELSE qa' = [qa EXCEPT !.pc = "VALIDATE",
                             !.routes = ValidateAndOptimizeRoutes(qa.routes, DM, problem.num_vehicles,
                                                                  problem.depot_index)]
    /\ UNCHANGED <<problem, cl, en>>

\* lines 528-573: cost, validation and the return of the primary tier
Validate ==
    /\ qa.pc = "VALIDATE"
    /\ qa' = [qa EXCEPT !.pc = "DONE", !.producer = "quantum",
                        !.result = PrimaryResult(qa.routes, DM, problem.depot_index,
                                                 qa.optimizer_name, qa.best_bitstring)]
    /\ UNCHANGED <<problem, cl, en>>

\* NearestNeighborSolver.solve raises on a matrix that is not an ndarray
\* (distance_matrix[current, remaining] is ndarray indexing)
NearestNeighborRaises == ~problem.ndarray

\* lines 575-606: the classical fallback
FallbackClassical ==
    /\ qa.pc = "FALLBACK_CLASSICAL"
    /\ LET entered == [qa EXCEPT !.tiers = Append(qa.tiers, "nearest_neighbor")]
       IN  IF NearestNeighborRaises
           THEN qa' = [entered EXCEPT !.pc = Handler(qa.pc)]
           ELSE qa' = [entered EXCEPT
                          !.pc = "DONE", !.producer = "nearest_neighbor",
                          !.result = FallbackResult(
                                         NearestNeighborSolve(DM, problem.num_vehicles,
                                                              problem.depot_index),
                                         qa.optimizer_name)]
    /\ UNCHANGED <<problem, cl, en>>

\* lines 607-641: the emergency tier
EmergencyFallback ==
    /\ qa.pc = "EMERGENCY_FALLBACK"
    /\ qa' = [qa EXCEPT !.pc = "DONE", !.producer = "emergency",
                        !.tiers = Append(qa.tiers, "emergency"),
                        !.result = EmergencyResult(DM, qa.optimizer_name)]
    /\ UNCHANGED <<problem, cl, en>>

NextQAOA ==
    \/ BuildQubo
    \/ Optimize
    \/ DecodePrimary
    \/ SimulatorFails
    \/ RunCircuit
    \/ ExamineCandidate
    \/ NoValidCandidate
    \/ Repair
    \/ Validate
    \/ FallbackClassical
    \/ EmergencyFallback

SpecQAOA == InitQAOA /\ [][NextQAOA]_vars

\* QAOAVRPSolver.solve with the SPSA optimizer on the instances on a line, for
\* every number of shots up to MaxShots
InitSampling ==
    /\ problem \in {p \in Instances(2..MaxDecodeD, 1..MaxVehicles) :
                       p.kind = "line" /\ p.depot_index < p.D}
    /\ \E shots \in 1..MaxShots :
          qa = [pc |-> "BUILD_QUBO", optimizer_name |-> "SPSA", shots |-> shots,
                measurement |-> NoBits, routes |-> <<>>, best_bitstring |-> NoBits,
                quantum_success |-> FALSE,
                top_bitstrings |-> <<>>, examined |-> 0, most_frequent |-> NoBits,
                failed |-> "none", tiers |-> <<"quantum">>, producer |-> "none",
                result |-> NoResult]
    /\ cl = Idle
    /\ en = Idle

SpecSampling == InitSampling /\ [][NextQAOA]_vars

(***************************************************************************)
(* EnsembleOptimizer.optimize as a state machine: one step per member of   *)
(* self.optimizers, then the selection.  A member's optimize is external:  *)
(* it raises, or returns a result with an objective value fun and leaves a *)
(* history on the member.                                                  *)
(***************************************************************************)
\* bounds: the members of an ensemble, the objective values a member can
\* return, and the entries of a member's history
MaxMembers == 3

MaxFun == 2

MaxHistory == 2

\* the names of the member optimizers (QuantumOptimizer.name, set by each class)
MemberNames == {"SPSA", "ADAM"}

SelectionStrategies == {"best_value", "first"}

NoHistory == [owner |-> 0, entries |-> 0]

InitEnsemble ==
    /\ \E n \in 1..MaxMembers, strategy \in SelectionStrategies :
          en \in {[pc |-> "run", optimizers |-> names, selection_strategy |-> strategy,
                   \* the loop position, the local list results, the attribute
                   \* self.results, self.history and the returned result
                   next |-> 1, results |-> <<>>, self_results |-> <<>>,
                   raised |-> {}, history |-> NoHistory, returned |-> NoResult] :
                      names \in [1..n -> MemberNames]}
    /\ problem = Idle
    /\ cl = Idle
    /\ qa = Idle

\* self.results[name] = entry, on a dictionary kept as the sequence of its items
DictSet(dict, name, entry) ==
    IF \E k \in 1..Len(dict) : dict[k].name = name
    THEN [k \in 1..Len(dict) |-> IF dict[k].name = name THEN [name |-> name, entry |-> entry]
                                 ELSE dict[k]]
    ELSE Append(dict, [name |-> name, entry |-> entry])

\* self.results[name]
DictGet(dict, name) == dict[CHOOSE k \in 1..Len(dict) : dict[k].name = name].entry

\* the body of the for loop for a member whose optimize returns
RunMember ==
    /\ en.pc = "run" /\ en.next <= Len(en.optimizers)
    /\ \E fun \in 0..MaxFun, entries \in 1..MaxHistory :
          LET name == en.optimizers[en.next]
              \* member is not a field of the code's result: it records which
              \* member produced the result
              result == [fun |-> fun, optimizer_name |-> name, member |-> en.next]
              history == [owner |-> en.next, entries |-> entries]
          IN  en' = [en EXCEPT !.next = en.next + 1,
                               !.results = Append(en.results, result),
                               !.self_results = DictSet(en.self_results, name,
                                                        [result |-> result, history |-> history])]
    /\ UNCHANGED <<problem, cl, qa>>

\* the body of the for loop for a member whose optimize raises: except ... continue
MemberRaises ==
    /\ en.pc = "run" /\ en.next <= Len(en.optimizers)
    /\ en' = [en EXCEPT !.next = en.next + 1, !.raised = en.raised \cup {en.next}]
    /\ UNCHANGED <<problem, cl, qa>>

\* min(results, key=lambda r: r.fun): the first result of least fun
MinByFun(results) ==
    results[CHOOSE k \in 1..Len(results) :
        /\ \A m \in 1..Len(results) : results[k].fun <= results[m].fun
        /\ \A m \in 1..(k - 1) : results[k].fun < results[m].fun]

\* self.results[best_result.optimizer_name]['history']
BestHistory(dict, results, best_result) == DictGet(dict, best_result.optimizer_name).history

\* after the loop: RuntimeError when no member returned, else the selection
SelectBest ==
    /\ en.pc = "run" /\ en.next > Len(en.optimizers)
    /\ IF en.results = <<>>
       THEN en' = [en EXCEPT !.pc = "raised"]
       ELSE LET best_result == IF en.selection_strategy = "best_value"
                               THEN MinByFun(en.results) ELSE en.results[1]
            IN  en' = [en EXCEPT !.pc = "done",
                                 !.history = BestHistory(en.self_results, en.results, best_result),
                                 !.returned = best_result]
    /\ UNCHANGED <<problem, cl, qa>>

NextEnsemble ==
    \/ RunMember
    \/ MemberRaises
    \/ SelectBest

SpecEnsemble == InitEnsemble /\ [][NextEnsemble]_vars

(***************************************************************************)
(* QuantumOptimizer: one optimizer instance (SPSAOptimizer, ADAMOptimizer  *)
(* or ScipyOptimizer) whose optimize is called several times.  The         *)
(* objective is external: the values it returns are drawn from 0..MaxFun,  *)
(* and a parameter vector is one of the points numbered 0..MaxFun.         *)
(***************************************************************************)
\* bounds: the optimize calls on one instance and the maxiter of the instance
MaxCalls == 2
MaxIter == 2

\* the optimizer classes; the name of a ScipyOptimizer is its method
OptimizerClasses == {"SPSA", "ADAM", "COBYLA"}

NoParams == [none |-> TRUE]

\* QuantumOptimizer.__init__
InitOptimizer ==
    /\ \E name \in OptimizerClasses, maxiter \in 0..MaxIter :
          en = [pc |-> "idle", name |-> name, maxiter |-> maxiter,
                history |-> <<>>, best_params |-> NoParams, best_value |-> Inf,
                \* calls: the optimize calls started so far; k: the iterations
                \* of the running call
                calls |-> 0, k |-> 0]
    /\ problem = Idle
    /\ cl = Idle
    /\ qa = Idle

\* _callback(params, value) with a value.  call is not a key of the source's
\* entry: it records which optimize call appended the entry.
Callback(optimizer, params, value) ==
    LET entry == [params |-> params, value |-> value,
                  iteration |-> Len(optimizer.history), call |-> optimizer.calls]
        appended == [optimizer EXCEPT !.history = Append(optimizer.history, entry)]
    IN  IF LessThanBest(value, optimizer.best_value)
        THEN [appended EXCEPT !.best_value = value, !.best_params = params]
        ELSE appended

\* optimize is entered: the statements before the loop (for ScipyOptimizer, up
\* to the call of minimize) touch none of history, best_params and best_value
OptimizeEnter ==
    /\ en.pc \in {"idle", "returned"}
    /\ en.calls < MaxCalls
    /\ en' = [en EXCEPT !.pc = "running", !.calls = en.calls + 1, !.k = 0]
    /\ UNCHANGED <<problem, cl, qa>>

\* one pass of the loop of SPSAOptimizer.optimize or ADAMOptimizer.optimize, or
\* one call of callback_wrapper by minimize: the point is evaluated and reported
OptimizeIterate ==
    /\ en.pc = "running"
    /\ en.k < en.maxiter
    /\ \E point \in 0..MaxFun, value \in 0..MaxFun :
          en' = [Callback(en, [point |-> point], Num(value)) EXCEPT !.k = en.k + 1]
    /\ UNCHANGED <<problem, cl, qa>>

\* optimize returns: after maxiter passes for SPSA and ADAM, after any number
\* of callbacks up to maxiter for minimize
OptimizeReturn ==
    /\ en.pc = "running"
    /\ en.k = en.maxiter \/ en.name \notin {"SPSA", "ADAM"}
    /\ en' = [en EXCEPT !.pc = "returned"]
    /\ UNCHANGED <<problem, cl, qa>>

NextOptimizer ==
    \/ OptimizeEnter
    \/ OptimizeIterate
    \/ OptimizeReturn

SpecOptimizer == InitOptimizer /\ [][NextOptimizer]_vars

(***************************************************************************)
(* Calls of validate_solution on arbitrary lists of routes.                *)
(***************************************************************************)
\* bounds: the routes of a validated solution and the stops of one route
MaxValRoutes == 2
MaxValStops == 3

\* every list of at most n members of S
SeqsUpTo(S, n) == UNION {[1..k -> S] : k \in 0..n}

\* (mutant) the normalization inserts and appends the depot in the caller's lists
SolutionAfterValidate_InPlace(solution, depot) ==
    [r \in 1..Len(solution) |-> NormalizedRoute(solution[r], depot)]

\* the caller's list of routes after validate_solution returned: lines 178 and
\* 180 bind the local name route to new lists and leave the caller's lists alone
SolutionAfterValidate(solution, depot) == solution

InitValidate ==
    /\ problem \in {p \in Instances(2..MaxDecodeD, {1}) :
                        WellFormed(p) /\ p.ndarray /\ p.kind = "line"}
    /\ \E solution \in SeqsUpTo(SeqsUpTo(0..(problem.D - 1), MaxValStops), MaxValRoutes) :
          qa = [pc |-> "call", passed |-> solution, solution |-> solution,
                first |-> NoResult, second |-> NoResult]
    /\ cl = Idle
    /\ en = Idle

\* validate_solution(test_case, solution)
ValidateCall ==
    /\ qa.pc = "call"
    /\ qa' = [qa EXCEPT !.pc = "returned",
                        !.first = ValidateSolution(qa.solution, DM, problem.depot_index),
                        !.solution = SolutionAfterValidate(qa.solution, problem.depot_index)]
    /\ UNCHANGED <<problem, cl, en>>

\* a second validate_solution(test_case, solution) on the same objects
ValidateAgain ==
    /\ qa.pc = "returned"
    /\ qa' = [qa EXCEPT !.pc = "returned again",
                        !.second = ValidateSolution(qa.solution, DM, problem.depot_index),
                        !.solution = SolutionAfterValidate(qa.solution, problem.depot_index)]
    /\ UNCHANGED <<problem, cl, en>>

NextValidate ==
    \/ ValidateCall
    \/ ValidateAgain

SpecValidate == InitValidate /\ [][NextValidate]_vars

(***************************************************************************)
(* VRPQUBOFormulation: the two dictionaries of _create_variable_mapping    *)
(* and their use to encode an edge set as bit indices and to decode it.    *)
(***************************************************************************)
\* bounds: the largest number of locations of a mapped instance, and the
\* largest edge set that is encoded and decoded
MaxMapD == 5
MaxEdges == 2

\* the nested loops of _create_variable_mapping after `visited` cells (i, j),
\* with the test of line 49 applied to the cells in numbered.
\* var_index maps an edge to its bit idx; index_to_var holds at position
\* idx + 1 the edge of bit idx.
VariableMappingLoop(num_locations, numbered) ==
    LET Step[visited \in 0..(num_locations * num_locations)] ==
            IF visited = 0 THEN [idx |-> 0, var_index |-> <<>>, index_to_var |-> <<>>]
            ELSE LET before == Step[visited - 1]
                     i == (visited - 1) \div num_locations
                     j == (visited - 1) % num_locations
                 IN  IF <<i, j>> \in numbered
                     THEN [idx |-> before.idx + 1,
                           var_index |-> (<<i, j>> :> before.idx) @@ before.var_index,
                           index_to_var |-> Append(before.index_to_var, <<i, j>>)]
                     ELSE before
    IN  Step[num_locations * num_locations]

\* (mutant) the loops number the self-loops (i, i) too
CreateVariableMapping_WithSelfLoops(num_locations) ==
    VariableMappingLoop(num_locations, (0..(num_locations - 1)) \X (0..(num_locations - 1)))

\* _create_variable_mapping
CreateVariableMapping(num_locations) ==
    VariableMappingLoop(num_locations,
                        {cell \in (0..(num_locations - 1)) \X (0..(num_locations - 1)) :
                            cell[1] # cell[2]})

\* the ordered pairs (i, j), i # j, over the locations
EdgesOver(D) == {e \in (0..(D - 1)) \X (0..(D - 1)) : e[1] # e[2]}

InitVarMap ==
    /\ \E D \in 1..MaxMapD :
          qa = [pc |-> "mapping", D |-> D, var_index |-> <<>>, index_to_var |-> <<>>,
                num_qubits |-> 0, edges |-> {}, bits |-> {}, decoded |-> {}]
    /\ problem = Idle
    /\ cl = Idle
    /\ en = Idle

\* __init__: the mapping and num_qubits = len(self.var_index)
CreateMapping ==
    /\ qa.pc = "mapping"
    /\ LET mapping == CreateVariableMapping(qa.D)
       IN  qa' = [qa EXCEPT !.pc = "mapped",
                            !.var_index = mapping.var_index,
                            !.index_to_var = mapping.index_to_var,
                            !.num_qubits = Cardinality(DOMAIN mapping.var_index)]
    /\ UNCHANGED <<problem, cl, en>>

\* self.var_index[(i, j)] for every edge of an edge set
EncodeEdges ==
    /\ qa.pc = "mapped"
    /\ \E edges \in {s \in SUBSET EdgesOver(qa.D) : Cardinality(s) <= MaxEdges} :
          qa' = [qa EXCEPT !.pc = "encoded",
                           !.edges = edges,
                           !.bits = {qa.var_index[e] : e \in edges}]
    /\ UNCHANGED <<problem, cl, en>>

\* self.index_to_var[i] for every set bit i
DecodeBits ==
    /\ qa.pc = "encoded"
    /\ qa' = [qa EXCEPT !.pc = "decoded",
                        !.decoded = {qa.index_to_var[idx + 1] : idx \in qa.bits}]
    /\ UNCHANGED <<problem, cl, en>>

NextVarMap ==
    \/ CreateMapping
    \/ EncodeEdges
    \/ DecodeBits

SpecVarMap == InitVarMap /\ [][NextVarMap]_vars

(***************************************************************************)
(* VRPQUBOFormulation: penalty_strength and the cost model that            *)
(* create_hamiltonian accumulates in linear_coeffs, quadratic_coeffs and   *)
(* constant.                                                               *)
(***************************************************************************)
\* k * x for an integer k
CScale(k, x) == [r |-> k * x.r, s |-> k * x.s]

\* np.max(self.distance_matrix)
MaxDistance(dm) ==
    LET entries == {dm[i][j] : i \in DOMAIN dm, j \in DOMAIN dm}
    IN  CHOOSE m \in entries : \A e \in entries : CLeq(e, m)

\* the factor of num_locations in _estimate_penalty_strength (line 57)
PenaltySizeFactor == 2

\* the factor applied to the estimate in __init__ (line 42)
PenaltyScale == 5

\* _estimate_penalty_strength
EstimatePenaltyStrength(dm) ==
    CScale(Cardinality(DOMAIN dm) * PenaltySizeFactor, MaxDistance(dm))

\* self.penalty_strength of __init__
PenaltyStrength(dm) == CScale(PenaltyScale, EstimatePenaltyStrength(dm))

\* (mutant) a constraint adds penalty_strength once to each unordered pair of
\* its bits
CostModel_PenaltyOncePerPair(dm, num_vehicles, depot_index) ==
    LET num_locations == Cardinality(DOMAIN dm)
        index_to_var == IndexToVar(num_locations)
        bits == 1..Len(index_to_var)
        penalty_strength == PenaltyStrength(dm)
        Tail_(q) == index_to_var[q][1]
        Head_(q) == index_to_var[q][2]
        IsCustomer(i) == i # depot_index
        Linear(q) ==
            CAdd(dm[Tail_(q)][Head_(q)],
              CAdd(IF IsCustomer(Tail_(q)) THEN CScale(-2 + 1, penalty_strength) ELSE Zero,
                CAdd(IF IsCustomer(Head_(q)) THEN CScale(-2 + 1, penalty_strength) ELSE Zero,
                     IF Tail_(q) = depot_index
                     THEN CScale(-2 * num_vehicles + 1, penalty_strength) ELSE Zero)))
        Quadratic(pair) ==
            LET a == pair[1]
                b == pair[2]
            IN  CAdd(IF Tail_(a) = Tail_(b) /\ IsCustomer(Tail_(a)) THEN penalty_strength ELSE Zero,
                  CAdd(IF Head_(a) = Head_(b) /\ IsCustomer(Head_(a)) THEN penalty_strength ELSE Zero,
                       IF Tail_(a) = depot_index /\ Tail_(b) = depot_index
                       THEN penalty_strength ELSE Zero))
    IN  [linear |-> [q \in bits |-> Linear(q)],
         quadratic |-> [pair \in {p \in bits \X bits : p[1] < p[2]} |-> Quadratic(pair)],
         constant |-> CAdd(CScale((num_locations - 1) * 2, penalty_strength),
                           CScale(num_vehicles * num_vehicles, penalty_strength))]

\* create_hamiltonian up to the conversion to Pauli terms: bits are numbered
\* from 1 here (bit idx of the source is position idx + 1 of index_to_var)
CostModel(dm, num_vehicles, depot_index) ==
    LET num_locations == Cardinality(DOMAIN dm)
        index_to_var == IndexToVar(num_locations)
        bits == 1..Len(index_to_var)
        penalty_strength == PenaltyStrength(dm)
        Tail_(q) == index_to_var[q][1]
        Head_(q) == index_to_var[q][2]
        IsCustomer(i) == i # depot_index
        \* cost term, then per constraint: -2 * penalty (times num_vehicles for
        \* the depot) and the diagonal term + penalty
        Linear(q) ==
            CAdd(dm[Tail_(q)][Head_(q)],
              CAdd(IF IsCustomer(Tail_(q)) THEN CScale(-2 + 1, penalty_strength) ELSE Zero,
                CAdd(IF IsCustomer(Head_(q)) THEN CScale(-2 + 1, penalty_strength) ELSE Zero,
                     IF Tail_(q) = depot_index
                     THEN CScale(-2 * num_vehicles + 1, penalty_strength) ELSE Zero)))
        \* each constraint visits both orders of a pair of its qubits and adds
        \* penalty_strength to the sorted key each time
        Quadratic(pair) ==
            LET a == pair[1]
                b == pair[2]
            IN  CAdd(IF Tail_(a) = Tail_(b) /\ IsCustomer(Tail_(a))
                     THEN CScale(2, penalty_strength) ELSE Zero,
                  CAdd(IF Head_(a) = Head_(b) /\ IsCustomer(Head_(a))
                       THEN CScale(2, penalty_strength) ELSE Zero,
                       IF Tail_(a) = depot_index /\ Tail_(b) = depot_index
                       THEN CScale(2, penalty_strength) ELSE Zero))
    IN  [linear |-> [q \in bits |-> Linear(q)],
         quadratic |-> [pair \in {p \in bits \X bits : p[1] < p[2]} |-> Quadratic(pair)],
         constant |-> CAdd(CScale((num_locations - 1) * 2, penalty_strength),
                           CScale(num_vehicles * num_vehicles, penalty_strength))]

\* the value of a cost model on a bit assignment: the constant, the linear
\* weight of every set bit and the quadratic weight of every pair of set bits
CostModelValue(model, bit_string) ==
    LET n == Len(bit_string)
        Weight(q) == IF bit_string[q] = 1 THEN model.linear[q] ELSE Zero
        PairWeight(a, b) ==
            IF bit_string[a] = 1 /\ bit_string[b] = 1 THEN model.quadratic[<<a, b>>] ELSE Zero
        LinearSum[q \in 0..n] == IF q = 0 THEN Zero ELSE CAdd(LinearSum[q - 1], Weight(q))
        RowSum(a) ==
            LET Row[b \in a..n] == IF b = a THEN Zero ELSE CAdd(Row[b - 1], PairWeight(a, b))
            IN  Row[n]
        QuadraticSum[a \in 0..n] == IF a = 0 THEN Zero ELSE CAdd(QuadraticSum[a - 1], RowSum(a))
    IN  CAdd(model.constant, CAdd(LinearSum[n], QuadraticSum[n]))

\* the formulation of an instance, and the assignments handed to its cost model
InitQubo ==
    /\ problem \in {p \in Instances(2..MaxD, 1..MaxVehicles) :
                        WellFormed(p) /\ p.ndarray /\ p.kind \in {"line", "square"}}
    /\ qa = [pc |-> "formulation", num_qubits |-> 0, penalty_strength |-> Zero,
             bit_string |-> NoBits, value |-> Zero]
    /\ cl = Idle
    /\ en = Idle

\* VRPQUBOFormulation.__init__
CreateFormulation ==
    /\ qa.pc = "formulation"
    /\ qa' = [qa EXCEPT !.pc = "hamiltonian",
                        !.num_qubits = NumQubits(problem.D),
                        !.penalty_strength = PenaltyStrength(DM)]
    /\ UNCHANGED <<problem, cl, en>>

\* create_hamiltonian, and the value of its cost model on one bit assignment
CreateHamiltonian ==
    /\ qa.pc = "hamiltonian"
    /\ \E bit_string \in BitStrings(qa.num_qubits) :
          qa' = [qa EXCEPT !.pc = "evaluated",
                           !.bit_string = bit_string,
                           !.value = CostModelValue(
                               CostModel(DM, problem.num_vehicles, problem.depot_index),
                               bit_string)]
    /\ UNCHANGED <<problem, cl, en>>

NextQubo ==
    \/ CreateFormulation
    \/ CreateHamiltonian

SpecQubo == InitQubo /\ [][NextQubo]_vars

(***************************************************************************)
(* VRPQUBOFormulation.decode_solution as a state machine: the walks of     *)
(* "Step 3", the insertion of "Step 4", the merge of "Step 5".             *)
(***************************************************************************)
\* the largest instance whose bit strings are all decoded
MaxWalkD == 4

InitDecode ==
    /\ problem \in {p \in Instances(2..MaxWalkD, 1..MaxVehicles) :
                        WellFormed(p) /\ p.ndarray /\ p.kind \in {"line", "far"}}
    /\ \E bit_string \in BitStrings(NumQubits(problem.D)) :
          qa = [pc |-> "walk", bit_string |-> bit_string, visited |-> {},
                walked |-> <<>>, inserted |-> <<>>, routes |-> <<>>]
    /\ cl = Idle
    /\ en = Idle

\* lines 176-256: the graph of the active edges and the walks from the depot
WalkRoutes ==
    /\ qa.pc = "walk"
    /\ LET extracted == ExtractRoutes(Graph(qa.bit_string, problem.D), DM, problem.depot_index)
       IN  qa' = [qa EXCEPT !.pc = "insert", !.routes = extracted.routes,
                            !.walked = extracted.routes, !.visited = extracted.visited]
    /\ UNCHANGED <<problem, cl, en>>

\* lines 258-291: the customers no walk visited are inserted
InsertMissedCustomers ==
    /\ qa.pc = "insert"
    /\ LET missed == Customers \ qa.visited
           routes == InsertMissed(qa.routes, SetInOrder(missed, problem.D), DM, problem.depot_index)
       IN  qa' = [qa EXCEPT !.pc = "merge", !.routes = routes, !.inserted = routes]
    /\ UNCHANGED <<problem, cl, en>>

\* lines 293-299: the merge when there are more routes than vehicles, and the return
MergeAndReturn ==
    /\ qa.pc = "merge"
    /\ qa' = [qa EXCEPT !.pc = "returned",
                        !.routes = IF Len(qa.routes) > problem.num_vehicles
                                   THEN MergeRoutes(qa.routes, problem.num_vehicles, problem.D)
                                   ELSE qa.routes]
    /\ UNCHANGED <<problem, cl, en>>

NextDecode ==
    \/ WalkRoutes
    \/ InsertMissedCustomers
    \/ MergeAndReturn

SpecDecode == InitDecode /\ [][NextDecode]_vars

(***************************************************************************)
(* BaseRouter (routing/base_router.py): the session of the async context   *)
(* manager and one call of _make_request.  The HTTP exchange is external:  *)
(* an attempt is answered with status 200 and a body, with status 200 and  *)
(* a body response.json() cannot read, with another status, or ends in a   *)
(* timeout or another error.                                               *)
(***************************************************************************)
\* the largest max_retries, and the number of times the context is entered
MaxRetries == 3
MaxEnters == 2

\* what one pass of the loop of _make_request can end with; session.get on a
\* closed session raises RuntimeError, which is an error like any other
AttemptOutcomes(session) ==
    IF session = "open"
    THEN {"status_200", "unreadable_200", "other_status", "timeout", "error"}
    ELSE {"error"}

\* line 88: `not self.session`; self.session is None until __aenter__ has run,
\* and a ClientSession object, open or closed, ever after
NotSession(session) == session = "none"

InitRequest ==
    /\ \E max_retries \in 0..MaxRetries :
          qa = [pc |-> "idle", session |-> "none", max_retries |-> max_retries, enters |-> 0,
                attempt |-> 0, outcomes |-> <<>>, sleeps |-> <<>>, raised |-> "none"]
    /\ problem = Idle
    /\ cl = Idle
    /\ en = Idle

\* __aenter__
RouterEnter ==
    /\ qa.pc = "idle" /\ qa.enters < MaxEnters
    /\ qa' = [qa EXCEPT !.session = "open", !.enters = qa.enters + 1]
    /\ UNCHANGED <<problem, cl, en>>

\* __aexit__: the session is closed and self.session keeps the closed object
RouterExit ==
    /\ qa.pc = "idle" /\ qa.session = "open"
    /\ qa' = [qa EXCEPT !.session = "closed"]
    /\ UNCHANGED <<problem, cl, en>>

\* lines 88-89: the call, and the test of self.session
MakeRequest ==
    /\ qa.pc = "idle"
    /\ IF NotSession(qa.session)
       THEN qa' = [qa EXCEPT !.pc = "raised", !.raised = "RuntimeError"]
       ELSE qa' = [qa EXCEPT !.pc = "loop"]
    /\ UNCHANGED <<problem, cl, en>>

\* lines 91-104: one attempt; status 200 with a readable body returns it
Attempt ==
    /\ qa.pc = "loop" /\ qa.attempt < qa.max_retries
    /\ \E outcome \in AttemptOutcomes(qa.session) :
          LET made == [qa EXCEPT !.outcomes = Append(qa.outcomes, outcome)]
          IN  IF outcome = "status_200"
              THEN qa' = [made EXCEPT !.pc = "returned"]
              ELSE IF qa.attempt < qa.max_retries - 1
              THEN qa' = [made EXCEPT !.pc = "backoff"]
              ELSE qa' = [made EXCEPT !.attempt = qa.attempt + 1]
    /\ UNCHANGED <<problem, cl, en>>

\* line 105: asyncio.sleep(2 ** attempt)
Backoff ==
    /\ qa.pc = "backoff"
    /\ qa' = [qa EXCEPT !.pc = "loop", !.sleeps = Append(qa.sleeps, 2 ^ qa.attempt),
                        !.attempt = qa.attempt + 1]
    /\ UNCHANGED <<problem, cl, en>>

\* line 107: the loop is over
RaiseAfterRetries ==
    /\ qa.pc = "loop" /\ qa.attempt >= qa.max_retries
    /\ qa' = [qa EXCEPT !.pc = "raised", !.raised = "Exception"]
    /\ UNCHANGED <<problem, cl, en>>

NextRequest ==
    \/ RouterEnter
    \/ RouterExit
    \/ MakeRequest
    \/ Attempt
    \/ Backoff
    \/ RaiseAfterRetries

SpecRequest == InitRequest /\ [][NextRequest]_vars

(***************************************************************************)
(* RoadDistanceCalculator._calculate_matrix_pairwise (distance/road_calc):  *)
(* one task per ordered pair of distinct locations, all of them calling     *)
(* calculate_distance on the one router of the calculator.  The tasks run   *)
(* on one event loop: a task runs alone from one await that suspends it to  *)
(* the next, which are the semaphore, the HTTP exchange and the sleep       *)
(* between two attempts.                                                    *)
(***************************************************************************)
\* the largest number of locations of the matrix
MaxLocations == 3

\* asyncio.Semaphore(3) (road_calc.py line 155)
SemaphoreCap == 3

\* max_retries of the OSRMClient that initialize() builds (road_calc.py line 57)
RouterMaxRetries == 2

PairTask == [pc |-> "queued", opened |-> 0, using |-> 0, attempt |-> 0]

InitPairwise ==
    /\ \E n \in 2..MaxLocations :
          qa = [\* the sessions ever created, and self.router.session as a position
                \* among them (0 is None)
                sessions |-> <<>>, session |-> 0,
                tasks |-> [c \in 1..(n * (n - 1)) |-> PairTask]]
    /\ problem = Idle
    /\ cl = Idle
    /\ en = Idle

InContext(task) == task.pc \in {"in_flight", "sleeping"}

\* __aexit__ of the router, run by any task: self.session, whichever session
\* that is by now, is closed
SessionsAfterExit(sessions, session) ==
    IF session = 0 THEN sessions ELSE [sessions EXCEPT ![session] = "closed"]

\* the task passes the semaphore, finds no cached route, enters the router
\* context (__aenter__ puts a new session in self.session) and sends its
\* first request on self.session; the event loop starts the tasks in the
\* order gather received them and the semaphore wakes its waiters in order
EnterAndRequest(c) ==
    /\ qa.tasks[c].pc = "queued"
    /\ \A d \in 1..(c - 1) : qa.tasks[d].pc # "queued"
    /\ Cardinality({d \in DOMAIN qa.tasks : InContext(qa.tasks[d])}) < SemaphoreCap
    /\ LET s == Len(qa.sessions) + 1
       IN  qa' = [qa EXCEPT !.sessions = Append(qa.sessions, "open"),
                            !.session = s,
                            !.tasks[c] = [pc |-> "in_flight", opened |-> s, using |-> s,
                                          attempt |-> 0]]
    /\ UNCHANGED <<problem, cl, en>>

\* the task leaves get_route with a route or with its fallback, leaves the
\* router context and releases the semaphore
LeaveContext(c) ==
    qa' = [qa EXCEPT !.sessions = SessionsAfterExit(qa.sessions, qa.session),
                     !.tasks[c].pc = "done"]

\* a failed attempt: the sleep when another attempt is left, else the end
AfterFailedAttempt(c) ==
    IF qa.tasks[c].attempt < RouterMaxRetries - 1
    THEN qa' = [qa EXCEPT !.tasks[c].pc = "sleeping"]
    ELSE LeaveContext(c)

\* the HTTP exchange of the task ends: with status 200 on a session that is
\* still open, or with a failure
CompleteRequest(c) ==
    /\ qa.tasks[c].pc = "in_flight"
    /\ \/ /\ qa.sessions[qa.tasks[c].using] = "open"
          /\ LeaveContext(c)
       \/ AfterFailedAttempt(c)
    /\ UNCHANGED <<problem, cl, en>>

\* the sleep is over: the next attempt goes to self.session as it is now; on a
\* closed session it fails at once
RetryRequest(c) ==
    /\ qa.tasks[c].pc = "sleeping"
    /\ IF qa.sessions[qa.session] = "open"
       THEN qa' = [qa EXCEPT !.tasks[c].pc = "in_flight", !.tasks[c].using = qa.session,
                            !.tasks[c].attempt = qa.tasks[c].attempt + 1]
       ELSE qa' = [qa EXCEPT !.sessions = SessionsAfterExit(qa.sessions, qa.session),
                            !.tasks[c].pc = "done",
                            !.tasks[c].attempt = qa.tasks[c].attempt + 1]
    /\ UNCHANGED <<problem, cl, en>>

NextPairwise ==
    \/ \E c \in DOMAIN qa.tasks : EnterAndRequest(c)
    \/ \E c \in DOMAIN qa.tasks : CompleteRequest(c)
    \/ \E c \in DOMAIN qa.tasks : RetryRequest(c)

SpecPairwise == InitPairwise /\ [][NextPairwise]_vars

(***************************************************************************)
(* Brute-force enumeration of the solutions of an instance, written from   *)
(* the definition of a valid solution and not from any solver.             *)
(***************************************************************************)
\* every ordering of the members of the set S
Orderings(S) ==
    {q \in [1..Cardinality(S) -> S] : \A a, b \in 1..Cardinality(S) : q[a] = q[b] => a = b}

\* a least member of a non-empty set of costs
MinCost(costs) == CHOOSE c \in costs : \A d \in costs : CLeq(c, d)

\* the cost of the cheapest depot-to-depot route over exactly the customers in S
CheapestRoute(S, dm, depot_index) ==
    IF S = {} THEN Zero
    ELSE MinCost({CalculateRouteCost(<<depot_index>> \o q \o <<depot_index>>, dm) : q \in Orderings(S)})

\* the cost of the cheapest solution whose routes hold the blocks of the assignment f
AssignmentCost(f, k, dm, depot_index) ==
    LET Block(b) == {c \in DOMAIN f : f[c] = b}
        Sum[b \in 0..k] ==
            IF b = 0 THEN Zero ELSE CAdd(Sum[b - 1], CheapestRoute(Block(b), dm, depot_index))
    IN  Sum[k]

\* the minimum total cost over all valid solutions with at most k routes
OptimumAtMost(dm, customers, depot_index, k) ==
    MinCost({AssignmentCost(f, k, dm, depot_index) : f \in [customers -> 1..k]})

\* the minimum total cost over all valid solutions with exactly k non-empty routes
OptimumExactly(dm, customers, depot_index, k) ==
    MinCost({AssignmentCost(f, k, dm, depot_index) :
                f \in {g \in [customers -> 1..k] : \A b \in 1..k : \E c \in customers : g[c] = b}})

\* a solution in the shape of a valid one: every customer exactly once over the
\* interiors of the routes, every route from the depot to the depot
VisitsEachCustomerOnce(solution, D, depot_index) ==
    /\ \A r \in 1..Len(solution) :
           /\ Len(solution[r]) >= 2
           /\ solution[r][1] = depot_index
           /\ solution[r][Len(solution[r])] = depot_index
    /\ \A c \in (0..(D - 1)) \ {depot_index} :
           Cardinality({rk \in {x \in (1..Len(solution)) \X (1..(MaxD + 2)) : x[2] <= Len(solution[x[1]])} :
                            solution[rk[1]][rk[2]] = c}) = 1

BnBDone == cl.solver = "BnB" /\ cl.pc = "done"

BudgetNeverHit == cl.evaluated = BnBAll(DM, problem.num_vehicles, problem.depot_index)

\* C6 (as stated): with a budget that is never hit, Branch and Bound returns the
\* minimum total cost over all valid solutions with at most num_vehicles routes.
C6_BnBReturnsGlobalOptimum ==
    (BnBDone /\ BudgetNeverHit) =>
        cl.result.total_cost = OptimumAtMost(DM, Customers, problem.depot_index, problem.num_vehicles)

\* C6 (amended): with a budget that is never hit, Branch and Bound returns the
\* minimum total cost over the valid solutions that use exactly
\* min(num_vehicles, customers) non-empty routes: a solution that leaves a
\* vehicle idle is not among its candidates.
C6_BnBReturnsFullFleetOptimum ==
    (BnBDone /\ BudgetNeverHit) =>
        cl.result.total_cost =
            OptimumExactly(DM, Customers, problem.depot_index,
                           Min2(problem.num_vehicles, Cardinality(Customers)))

\* a finished search whose result is dearer than the best solution with an idle vehicle
C6_Witness ==
    /\ BnBDone /\ BudgetNeverHit
    /\ problem.num_vehicles <= Cardinality(Customers)
    /\ Len(cl.result.solution) = problem.num_vehicles
    /\ CLess(OptimumAtMost(DM, Customers, problem.depot_index, problem.num_vehicles),
             cl.result.total_cost)

OnOptimalTest ==
    /\ problem.kind = "square"
    /\ problem.num_vehicles = OptimalTestVehicles
    /\ problem.depot_index = 0

TwoPlusRoot2 == CAdd(Num(2), Root2)

FourPlusRoot2 == CAdd(Num(4), Root2)

SolverDoneOnOptimalTest(solver) ==
    /\ OnOptimalTest
    /\ cl.solver = solver /\ cl.pc = "done"
    /\ solver = "BnB" => BudgetNeverHit

\* C7 (as stated): on optimal_test Branch and Bound and Nearest Neighbor both
\* return the brute-force optimum, and that optimum is 2 + sqrt(2).
C7_OptimalTestIsTwoPlusRoot2 ==
    (SolverDoneOnOptimalTest("BnB") \/ SolverDoneOnOptimalTest("NN")) =>
        /\ cl.result.total_cost = OptimumAtMost(DM, Customers, 0, OptimalTestVehicles)
        /\ OptimumAtMost(DM, Customers, 0, OptimalTestVehicles) = TwoPlusRoot2

\* C7 (amended): on optimal_test Branch and Bound and Nearest Neighbor both
\* return 4 + sqrt(2), the least cost over the solutions with exactly two
\* non-empty routes; the least cost over at most two routes is 4.
C7_OptimalTestIsFourPlusRoot2 ==
    (SolverDoneOnOptimalTest("BnB") \/ SolverDoneOnOptimalTest("NN")) =>
        /\ cl.result.total_cost = FourPlusRoot2
        /\ OptimumExactly(DM, Customers, 0, OptimalTestVehicles) = FourPlusRoot2
        /\ OptimumAtMost(DM, Customers, 0, OptimalTestVehicles) = Num(4)

C7_Witness ==
    /\ SolverDoneOnOptimalTest("BnB")
    /\ cl.result.total_cost = FourPlusRoot2
    /\ cl.result.solution = << <<0, 1, 0>>, <<0, 2, 3, 0>> >>

NNCovers(result) ==
    /\ result.valid
    /\ Range(SelectSeqNe(Flatten(result.solution), 0)) = {1, 2, 3}

\* C8 (as stated): Nearest Neighbor on the square instance returns a valid
\* solution covering {1,2,3} whose cost is at most the cost of every valid
\* partition into at most 2 routes.
C8_NNBeatsEveryPartition ==
    SolverDoneOnOptimalTest("NN") =>
        /\ NNCovers(cl.result)
        /\ \A f \in [Customers -> 1..OptimalTestVehicles] :
               CLeq(cl.result.total_cost, AssignmentCost(f, OptimalTestVehicles, DM, 0))

\* C8 (amended): Nearest Neighbor on the square instance returns a valid
\* solution covering {1,2,3} whose cost is at most the cost of every valid
\* partition into exactly 2 non-empty routes.
C8_NNBeatsEveryTwoRoutePartition ==
    SolverDoneOnOptimalTest("NN") =>
        /\ NNCovers(cl.result)
        /\ \A f \in [Customers -> 1..OptimalTestVehicles] :
               (\A b \in 1..OptimalTestVehicles : \E c \in Customers : f[c] = b) =>
                   CLeq(cl.result.total_cost, AssignmentCost(f, OptimalTestVehicles, DM, 0))

C8_Witness ==
    /\ SolverDoneOnOptimalTest("NN")
    /\ Len(cl.result.solution) = 2
    /\ cl.result.valid

GAZeroGenerations == cl.solver = "GA" /\ cl.generations = 0

SAZeroIterations == cl.solver = "SA" /\ cl.max_iterations = 0

\* C9 (as stated): the Genetic Algorithm with generations = 0 and Simulated
\* Annealing with max_iterations = 0 return without raising a solution that
\* visits every customer exactly once from and to depot_index, flagged valid.
C9_ZeroBudgetReturnsValid ==
    /\ (GAZeroGenerations \/ SAZeroIterations) => cl.pc # "raised"
    /\ ((GAZeroGenerations \/ SAZeroIterations) /\ cl.pc = "done") =>
           /\ cl.result.is_valid
           /\ VisitsEachCustomerOnce(cl.result.solution, problem.D, problem.depot_index)

(***************************************************************************)
(* Properties of QAOAVRPSolver.solve                                       *)
(***************************************************************************)
Done == qa.pc = "DONE"

\* C1 (as stated): whenever a returned result is flagged valid, every customer
\* appears exactly once across the routes of its solution and every route
\* starts and ends at depot_index.  (The flag of Nearest Neighbor is "valid".)
C1_ValidFlagMeansValidSolution ==
    /\ Done =>
           (qa.result.is_valid =>
                VisitsEachCustomerOnce(qa.result.solution, problem.D, problem.depot_index))
    /\ cl.pc = "done" =>
           ((IF cl.solver = "NN" THEN cl.result.valid ELSE cl.result.is_valid) =>
                VisitsEachCustomerOnce(cl.result.solution, problem.D, problem.depot_index))

\* The same implication for every result that does not come from the emergency tier.
ValidFlagMeansValidSolutionBeforeEmergency ==
    /\ (Done /\ qa.producer # "emergency") =>
           (qa.result.is_valid =>
                VisitsEachCustomerOnce(qa.result.solution, problem.D, problem.depot_index))
    /\ cl.pc = "done" =>
           ((IF cl.solver = "NN" THEN cl.result.valid ELSE cl.result.is_valid) =>
                VisitsEachCustomerOnce(cl.result.solution, problem.D, problem.depot_index))

\* C2: solve never raises to its caller; a finished call carries solution,
\* total_cost, is_valid and algorithm, and algorithm is QAOA-<optimizer>,
\* QAOA-<optimizer>-Fallback or QAOA-<optimizer>-EmergencyFallback exactly when
\* the quantum path, Nearest Neighbor or the singleton-route tier built the
\* solution; there is no result before the call has finished.
C2_NeverRaisesAndTagsTier ==
    /\ qa.pc # "RAISED"
    /\ (qa.pc \in QuantumStages \cup {"FALLBACK_CLASSICAL", "EMERGENCY_FALLBACK"}) =>
           qa.result = NoResult
    /\ Done =>
           /\ {"solution", "total_cost", "is_valid", "algorithm"} \subseteq DOMAIN qa.result
           /\ qa.result.algorithm = PrimaryTag(qa.optimizer_name) <=> qa.producer = "quantum"
           /\ qa.result.algorithm = FallbackTag(qa.optimizer_name) <=> qa.producer = "nearest_neighbor"
           /\ qa.result.algorithm = EmergencyTag(qa.optimizer_name) <=> qa.producer = "emergency"
           /\ qa.producer \in {"quantum", "nearest_neighbor", "emergency"}

C2_Witness ==
    /\ Done
    /\ qa.failed = "REPAIR"
    /\ qa.producer = "nearest_neighbor"
    /\ qa.result.algorithm = <<"QAOA", "SPSA", "Fallback">>

\* C3 (as stated): for an instance that needs more than 20 bits no fallback tier
\* runs and no solution is returned.
C3_InfeasibleSizeIsSurfaced ==
    (problem.ndarray /\ NumQubits(problem.D) > QubitLimit) =>
        /\ qa.pc \notin {"FALLBACK_CLASSICAL", "EMERGENCY_FALLBACK"}
        /\ qa.tiers = <<"quantum">>
        /\ qa.result = NoResult

\* C3 (amended): for an instance that needs more than 20 bits the size error is
\* raised inside the try block of solve and caught there: no quantum stage
\* after BUILD_QUBO runs, nothing is raised to the caller, and a fallback tier
\* produces the result; on an ndarray matrix it is the Nearest Neighbor
\* solution, tagged QAOA-<optimizer>-Fallback.
C3_InfeasibleSizeFallsBack ==
    NumQubits(problem.D) > QubitLimit =>
        /\ qa.pc \in {"BUILD_QUBO", "FALLBACK_CLASSICAL", "EMERGENCY_FALLBACK", "DONE"}
        /\ Done =>
               /\ qa.failed = "BUILD_QUBO"
               /\ qa.producer \in {"nearest_neighbor", "emergency"}
               /\ problem.ndarray =>
                      /\ qa.producer = "nearest_neighbor"
                      /\ qa.result.algorithm = FallbackTag(qa.optimizer_name)
                      /\ qa.result.solution =
                             NNSolution(DM, problem.num_vehicles, problem.depot_index)

C3_Witness ==
    /\ Done
    /\ problem.ndarray
    /\ NumQubits(problem.D) > QubitLimit
    /\ qa.tiers = <<"quantum", "nearest_neighbor">>
    /\ qa.result.fallback_used

\* C4 (as stated): the emergency tier returns exactly one route
\* [depot_index, c, depot_index] per customer c, so that its is_valid = true is correct.
C4_EmergencyRoutesUseDepot ==
    (Done /\ qa.producer = "emergency") =>
        /\ Len(qa.result.solution) = Cardinality(Customers)
        /\ Range(qa.result.solution) =
               {<<problem.depot_index, c, problem.depot_index>> : c \in Customers}
        /\ qa.result.is_valid
        /\ VisitsEachCustomerOnce(qa.result.solution, problem.D, problem.depot_index)

\* C5 (as stated): Nearest Neighbor runs only after an exception in BUILD_QUBO,
\* OPTIMIZE or DECODE_PRIMARY, the emergency tier only after Nearest Neighbor
\* raised, and no tier runs once a tier has produced the result.
C5_FallbackOnlyFromFirstThreeStages ==
    /\ qa.tiers \in {<<"quantum">>, <<"quantum", "nearest_neighbor">>,
                     <<"quantum", "nearest_neighbor", "emergency">>}
    /\ "nearest_neighbor" \in Range(qa.tiers) =>
           qa.failed \in {"BUILD_QUBO", "OPTIMIZE", "DECODE_PRIMARY", "DECODE_SAMPLED"}
    /\ "emergency" \in Range(qa.tiers) => NearestNeighborRaises
    /\ qa.producer # "none" => Done

(***************************************************************************)
(* Properties of EnsembleOptimizer.optimize                                *)
(***************************************************************************)
Completed == {k \in 1..Len(en.optimizers) : k < en.next /\ k \notin en.raised}

\* C10 (as stated, for the default selection strategy): optimize runs every
\* member, skips the ones that raise, returns the result of least objective
\* value among the members that completed together with that member's own
\* history, and raises exactly when every member raised.
C10_BestResultWithItsOwnHistory ==
    (en.pc \in {"done", "raised"} /\ en.selection_strategy = "best_value") =>
        /\ en.next = Len(en.optimizers) + 1
        /\ en.pc = "raised" <=> Completed = {}
        /\ en.pc = "done" =>
               /\ en.returned.member \in Completed
               /\ \A r \in Range(en.results) : en.returned.fun <= r.fun
               /\ en.history.owner = en.returned.member

(***************************************************************************)
(* Feasible edge sets of an instance.                                      *)
(***************************************************************************)
\* the edges a bit assignment selects
EdgesOf(bit_string, D) == {IndexToVar(D)[q] : q \in {k \in 1..Len(bit_string) : bit_string[k] = 1}}

\* the locations reached from the depot along the edges
ReachedFromDepot(edges, D, depot_index) ==
    LET Reach[k \in 0..D] ==
            IF k = 0 THEN {depot_index}
            ELSE Reach[k - 1] \cup {e[2] : e \in {x \in edges : x[1] \in Reach[k - 1]}}
    IN  Reach[D]

\* the edges are those of exactly num_vehicles depot-to-depot routes that
\* together hold every customer exactly once
EncodesFeasible(edges, D, num_vehicles, depot_index) ==
    LET Out(i) == Cardinality({e \in edges : e[1] = i})
        In(i) == Cardinality({e \in edges : e[2] = i})
    IN  /\ \A c \in (0..(D - 1)) \ {depot_index} : Out(c) = 1 /\ In(c) = 1
        /\ Out(depot_index) = num_vehicles
        /\ In(depot_index) = num_vehicles
        /\ ReachedFromDepot(edges, D, depot_index) = 0..(D - 1)

\* the bit assignment that selects exactly the edges
BitsOf(edges, D) == [q \in 1..Len(IndexToVar(D)) |-> IF IndexToVar(D)[q] \in edges THEN 1 ELSE 0]

\* the feasible bit assignments of an instance, built from the ways of cutting
\* an ordering of the customers into num_vehicles non-empty routes
FeasibleBitStrings(D, num_vehicles, depot_index) ==
    LET customers == (0..(D - 1)) \ {depot_index}
        n == Cardinality(customers)
        Stops(q, cuts) == [k \in 1..n |-> <<IF k = 1 \/ (k - 1) \in cuts THEN depot_index ELSE q[k - 1],
                                           q[k]>>]
        Closing(q, cuts) == {<<q[k], depot_index>> : k \in cuts \cup {n}}
        RouteEdges(q, cuts) == Range(Stops(q, cuts)) \cup Closing(q, cuts)
    IN  {BitsOf(RouteEdges(q, cuts), D) :
            q \in Orderings(customers),
            cuts \in {c \in SUBSET (1..(n - 1)) : Cardinality(c) = num_vehicles - 1}}

QuboEvaluated == qa.pc = "evaluated"

\* C11: the cost model of create_hamiltonian gives every feasible bit assignment
\* a strictly smaller value than every bit assignment that is not feasible.
C11_PenaltyDominance ==
    (QuboEvaluated /\ ~EncodesFeasible(EdgesOf(qa.bit_string, problem.D), problem.D,
                                       problem.num_vehicles, problem.depot_index)) =>
        \A feasible \in FeasibleBitStrings(problem.D, problem.num_vehicles, problem.depot_index) :
            CLess(CostModelValue(CostModel(DM, problem.num_vehicles, problem.depot_index), feasible),
                  qa.value)

\* the part of C11 that holds: an assignment that breaks a degree constraint
\* costs strictly more than every feasible one when some distance is positive
DegreeViolationIsDominated ==
    LET edges == EdgesOf(qa.bit_string, problem.D)
        DegreesHold ==
            /\ \A c \in Customers : /\ Cardinality({e \in edges : e[1] = c}) = 1
                                    /\ Cardinality({e \in edges : e[2] = c}) = 1
            /\ Cardinality({e \in edges : e[1] = problem.depot_index}) = problem.num_vehicles
    IN  (QuboEvaluated /\ ~DegreesHold) =>
            \A feasible \in FeasibleBitStrings(problem.D, problem.num_vehicles, problem.depot_index) :
                CLess(CostModelValue(CostModel(DM, problem.num_vehicles, problem.depot_index), feasible),
                      qa.value)

\* the feasible assignments built from routes are exactly the assignments
\* whose edges encode a feasible solution
FeasibleBitStringsAreTheFeasibleOnes ==
    QuboEvaluated =>
        (qa.bit_string \in FeasibleBitStrings(problem.D, problem.num_vehicles, problem.depot_index)
            <=> EncodesFeasible(EdgesOf(qa.bit_string, problem.D), problem.D,
                                problem.num_vehicles, problem.depot_index))

\* C12: the variable map is a bijection between the edges (i, j), i # j, and
\* the bit indices 0..D*(D-1)-1: var_index and index_to_var are mutual
\* inverses, num_qubits is D*(D-1), and an edge set mapped to its bit indices
\* and back is the same edge set.
C12_VariableMapIsBijection ==
    qa.pc \in {"mapped", "encoded", "decoded"} =>
        LET num_bits == qa.D * (qa.D - 1)
        IN  /\ qa.num_qubits = num_bits
            /\ DOMAIN qa.var_index = EdgesOver(qa.D)
            /\ DOMAIN qa.index_to_var = 1..num_bits
            /\ \A e \in EdgesOver(qa.D) :
                   /\ qa.var_index[e] \in 0..(num_bits - 1)
                   /\ qa.index_to_var[qa.var_index[e] + 1] = e
            /\ \A idx \in 0..(num_bits - 1) :
                   /\ qa.index_to_var[idx + 1] \in EdgesOver(qa.D)
                   /\ qa.var_index[qa.index_to_var[idx + 1]] = idx
            /\ qa.index_to_var = IndexToVar(qa.D)
            /\ qa.pc \in {"encoded", "decoded"} =>
                   /\ qa.bits \subseteq 0..(num_bits - 1)
                   /\ Cardinality(qa.bits) = Cardinality(qa.edges)
            /\ qa.pc = "decoded" => qa.decoded = qa.edges

C12_Witness ==
    /\ qa.pc = "decoded"
    /\ qa.D = 3
    /\ qa.edges = {<<0, 2>>, <<2, 1>>}
    /\ qa.bits = {1, 5}
    /\ qa.decoded = qa.edges

\* the indices of {0..D-1} minus the depot that occur in no route
OccurInNoRoute(solution, D, depot_index) ==
    {c \in (0..(D - 1)) \ {depot_index} :
        \A r \in 1..Len(solution) : c \notin Range(solution[r])}

\* some customer occurs in more than one route
InMoreThanOneRoute(solution, D, depot_index) ==
    \E c \in (0..(D - 1)) \ {depot_index} :
        \E r1, r2 \in 1..Len(solution) :
            r1 # r2 /\ c \in Range(solution[r1]) /\ c \in Range(solution[r2])

\* C13: validate_solution returns is_valid exactly when every index other than
\* depot_index occurs in some route and no customer occurs in more than one
\* route, and its unvisited list is exactly the indices that occur in no route.
C13_ValidIffCoveredOnce ==
    qa.pc = "returned" =>
        /\ qa.first.is_valid <=>
              (/\ OccurInNoRoute(qa.passed, problem.D, problem.depot_index) = {}
               /\ ~InMoreThanOneRoute(qa.passed, problem.D, problem.depot_index))
        /\ qa.first.unvisited_customers = OccurInNoRoute(qa.passed, problem.D, problem.depot_index)

\* the part of C13 that holds: with depot_index = 0 the unvisited list is the
\* set of customers in no route, and is_valid says that it is empty and that
\* no customer occurs twice, in one route or in several
ValidIffCoveredOnceAtDepotZero ==
    (qa.pc = "returned" /\ problem.depot_index = 0) =>
        LET visits == SelectSeqNe(Flatten(qa.passed), 0)
        IN  /\ qa.first.unvisited_customers = OccurInNoRoute(qa.passed, problem.D, 0)
            /\ qa.first.is_valid <=>
                  (/\ OccurInNoRoute(qa.passed, problem.D, 0) = {}
                   /\ NoDuplicates(visits))

HeldSolutions ==
    (IF cl.solver = "GA" /\ cl.pc # "start" THEN Range(cl.population) ELSE {})
    \cup (IF cl.solver = "SA" /\ cl.pc # "start"
          THEN {cl.current_solution, cl.best_solution} ELSE {})
    \cup (IF cl.pc = "done" THEN {cl.result.solution} ELSE {})

\* the part of C15 that holds: the classical solvers never hold or return more
\* than num_vehicles routes
ClassicalSolversUseAtMostNumVehiclesRoutes ==
    \A solution \in HeldSolutions : Len(solution) <= problem.num_vehicles

\* C15: the solution of every classical solver (for Simulated Annealing at
\* every iteration too) and of the primary tier of QAOAVRPSolver.solve has at
\* most num_vehicles routes.
C15_AtMostNumVehiclesRoutes ==
    /\ ClassicalSolversUseAtMostNumVehiclesRoutes
    /\ (Done /\ qa.producer = "quantum") => Len(qa.result.solution) <= problem.num_vehicles

\* the entries of the history that the optimize call number c appended
EntriesOfCall(c) == SelectSeq(en.history, LAMBDA e : e.call = c)

\* the history only grows: what it held stays, in place
HistoryOnlyGrows ==
    [][/\ Len(en'.history) >= Len(en.history)
       /\ SubSeq(en'.history, 1, Len(en.history)) = en.history]_vars

\* when an optimize call has returned, history, best_value and best_params
\* hold what that call recorded and nothing of earlier calls
HistoryIsOfLatestCall ==
    en.pc = "returned" =>
        /\ en.history = EntriesOfCall(en.calls)
        /\ \A k \in 1..Len(en.history) : en.history[k].iteration = k - 1
        /\ IF en.history = <<>> THEN en.best_value = Inf /\ en.best_params = NoParams
           ELSE /\ \E k \in 1..Len(en.history) :
                      /\ en.history[k].value = en.best_value
                      /\ en.history[k].params = en.best_params
                /\ \A k \in 1..Len(en.history) : CLeq(en.best_value, en.history[k].value)

\* C16: the history is per optimize call: it only grows within a call, and
\* after any sequence of calls the history, the best value and the best params
\* of the instance hold only what the most recent call recorded.
C16_HistoryIsPerCall == HistoryOnlyGrows /\ []HistoryIsOfLatestCall

\* the part of C16 that holds: the entries are numbered 0, 1, 2, ... over the
\* whole life of the instance, and best_value is the least value ever recorded
HistoryIsOfAllCalls ==
    /\ \A k \in 1..Len(en.history) : en.history[k].iteration = k - 1
    /\ \A k \in 1..Len(en.history) : en.best_value # Inf /\ CLeq(en.best_value, en.history[k].value)
    /\ \A a, b \in 1..Len(en.history) : a <= b => en.history[a].call <= en.history[b].call

\* the names under which a solver's result tells whether its solution is valid
ValidityFlags == {"is_valid", "valid"}

\* C17: the solve of a classical solver never raises: it returns a result that
\* carries a validity flag.
C17_ClassicalSolversNeverRaise ==
    /\ cl.pc # "raised"
    /\ cl.pc = "done" => DOMAIN cl.result \cap ValidityFlags # {}

\* the part of C17 that holds: the Genetic Algorithm is the only solver that
\* raises, it does not raise when location 0 is the only customer, and every
\* returned result carries a validity flag
OnlyOneCustomerCrossoverRaises ==
    /\ cl.pc = "raised" => cl.solver = "GA" /\ Customers \ {AssumedDepot} # {}
    /\ cl.pc = "done" => DOMAIN cl.result \cap ValidityFlags # {}

\* C18: the result of every classical solver has a field is_valid, and it
\* equals the is_valid validate_solution computes for the returned solution.
C18_IsValidIsTheValidatorsVerdict ==
    cl.pc = "done" =>
        /\ "is_valid" \in DOMAIN cl.result
        /\ cl.result.is_valid =
               ValidateSolution(cl.result.solution, DM, problem.depot_index).is_valid

\* the part of C18 that holds: with depot_index = 0 the validity flag of the
\* result, under the name the solver gives it, is the verdict of validate_solution
FlagIsTheValidatorsVerdictAtDepotZero ==
    (cl.pc = "done" /\ problem.depot_index = 0) =>
        (IF cl.solver = "NN" THEN cl.result.valid ELSE cl.result.is_valid) =
            ValidateSolution(cl.result.solution, DM, 0).is_valid

\* the routes a sampled bit string decodes to, and whether they validate
DecodeOfSampled(bitstring) ==
    DecodeSolution(bitstring, DM, problem.num_vehicles, problem.depot_index)

CandidateValidates(k) ==
    ValidateSolution(DecodeOfSampled(qa.top_bitstrings[k][1]), DM, problem.depot_index).is_valid

\* C19: the sampled candidates are examined one at a time in descending order
\* of frequency; the first one whose decode validates is adopted and none is
\* examined after it; when none validates, the decode of the most frequent
\* sampled bit string is adopted.
C19_FirstValidCandidateIsAdopted ==
    qa.top_bitstrings # <<>> =>
        LET top == qa.top_bitstrings
        IN  /\ \A i, j \in DOMAIN top : i < j => top[i][2] >= top[j][2]
            /\ qa.examined <= Len(top)
            /\ \A k \in 1..(qa.examined - 1) : ~CandidateValidates(k)
            /\ qa.pc = "REPAIR" =>
                  IF qa.examined >= 1 /\ CandidateValidates(qa.examined)
                  THEN /\ qa.routes = DecodeOfSampled(top[qa.examined][1])
                       /\ qa.best_bitstring = top[qa.examined][1]
                  ELSE /\ qa.examined = Len(top)
                       /\ \A i \in DOMAIN top : top[i][2] <= top[1][2]
                       /\ qa.most_frequent = top[1][1]
                       /\ qa.routes = DecodeOfSampled(top[1][1])

\* the most frequent candidate does not validate and the second one is adopted
C19_Witness ==
    /\ qa.pc = "REPAIR"
    /\ Len(qa.top_bitstrings) = 2 /\ qa.examined = 2
    /\ qa.top_bitstrings[1][2] > qa.top_bitstrings[2][2]
    /\ ~CandidateValidates(1) /\ CandidateValidates(2)
    /\ qa.routes = DecodeOfSampled(qa.top_bitstrings[2][1])

\* C20: after a decode that yields a non-empty route set the repair pass runs
\* to completion, and the result returned is the repaired solution of the
\* primary tier with its final validation.
C20_RepairCompletesAfterDecode ==
    qa.routes # <<>> =>
        /\ qa.failed # "REPAIR"
        /\ qa.pc = "DONE" =>
              /\ qa.producer = "quantum"
              /\ qa.result.solution = qa.routes
              /\ qa.result.validation =
                     ValidateSolution(qa.routes, DM, problem.depot_index)

\* the part of C20 that holds: the repair pass fails only on a decode of more
\* routes than vehicles, and a decode the repair pass completes on is returned
\* by the primary tier with the validation of the repaired routes
RepairCompletesWithinFleet ==
    /\ qa.failed = "REPAIR" => Len(qa.routes) > problem.num_vehicles
    /\ (qa.pc = "DONE" /\ qa.routes # <<>> /\ qa.failed = "none") =>
          /\ qa.producer = "quantum"
          /\ qa.result.solution = qa.routes
          /\ qa.result.validation = ValidateSolution(qa.routes, DM, problem.depot_index)

\* the distance of the selected edges plus penalty_strength times the squared
\* degree deviations: out-degree and in-degree 1 at every customer, out-degree
\* num_vehicles at the depot
DistancePlusPenalties(bit_string, dm, num_vehicles, depot_index) ==
    LET D == Cardinality(DOMAIN dm)
        edges == EdgesOf(bit_string, D)
        Out(i) == Cardinality({e \in edges : e[1] = i})
        In(i) == Cardinality({e \in edges : e[2] = i})
        Square(n) == n * n
        Deviation(i) == IF i = depot_index THEN Square(Out(i) - num_vehicles)
                        ELSE Square(Out(i) - 1) + Square(In(i) - 1)
        Deviations[i \in 0..D] == IF i = 0 THEN 0 ELSE Deviations[i - 1] + Deviation(i - 1)
        index_to_var == IndexToVar(D)
        Distance[q \in 0..Len(bit_string)] ==
            IF q = 0 THEN Zero
            ELSE IF bit_string[q] = 1
                 THEN CAdd(Distance[q - 1], dm[index_to_var[q][1]][index_to_var[q][2]])
                 ELSE Distance[q - 1]
    IN  CAdd(Distance[Len(bit_string)], CScale(Deviations[D], PenaltyStrength(dm)))

\* C21: on every assignment of the edge bits the value of the cost model of
\* create_hamiltonian, read as a QUBO, is the distance of the selected edges
\* plus penalty_strength times the squared deviations of the customers'
\* out-degree and in-degree from 1 and of the depot's out-degree from
\* num_vehicles.
C21_CostModelIsDistancePlusPenalties ==
    QuboEvaluated =>
        qa.value = DistancePlusPenalties(qa.bit_string, DM, problem.num_vehicles,
                                         problem.depot_index)

\* three locations, two edges leaving one customer and a depot out-degree that
\* is not num_vehicles
C21_Witness ==
    /\ QuboEvaluated
    /\ problem.D = 3 /\ problem.num_vehicles = 2
    /\ \E c \in Customers :
          Cardinality({e \in EdgesOf(qa.bit_string, problem.D) : e[1] = c}) = 2
    /\ Cardinality({e \in EdgesOf(qa.bit_string, problem.D) : e[1] = problem.depot_index}) = 1
    /\ qa.value # Zero

\* the steps of decode_solution compose to DecodeSolution
DecodeStepsAreDecodeSolution ==
    qa.pc = "returned" =>
        qa.routes = DecodeSolution(qa.bit_string, DM, problem.num_vehicles, problem.depot_index)

\* C22: every route decode_solution returns starts with depot_index and ends
\* with depot_index.
C22_DecodedRoutesAreClosed ==
    qa.pc = "returned" =>
        \A r \in 1..Len(qa.routes) :
            /\ qa.routes[r][1] = problem.depot_index
            /\ qa.routes[r][Len(qa.routes[r])] = problem.depot_index

\* the part of C22 that holds: every returned route starts with depot_index
\* and has at least three stops, and a route that is not open after the walks and
\* the insertion is not open after the merge
DecodedRoutesStartAtDepot ==
    qa.pc = "returned" =>
        /\ \A r \in 1..Len(qa.routes) :
              qa.routes[r][1] = problem.depot_index /\ Len(qa.routes[r]) >= 3
        /\ (\A r \in 1..Len(qa.inserted) :
                qa.inserted[r][Len(qa.inserted[r])] = problem.depot_index)
              => \A r \in 1..Len(qa.routes) :
                     qa.routes[r][Len(qa.routes[r])] = problem.depot_index

\* the number of times a location occurs in the routes
Occurrences(routes, c) ==
    Cardinality({rk \in {<<r, k>> : r \in 1..Len(routes), k \in 1..MaxWalkD + 2} :
                    rk[2] <= Len(routes[rk[1]]) /\ routes[rk[1]][rk[2]] = c})

\* C23: decode_solution terminates, and every customer appears in exactly one
\* of the returned routes, exactly once.
C23_DecodeCoversEveryCustomerOnce ==
    qa.pc = "returned" =>
        \A c \in Customers : Occurrences(qa.routes, c) = 1

\* the part of C23 that holds: no customer is in the returned routes twice; a
\* customer is missing from the routes after the insertion only when a walk
\* visited it and the walk's route was discarded; and a customer is lost in the
\* merge only when a route was open
NoCustomerTwiceAndLossOnlyFromWalkOrOpenRoute ==
    qa.pc = "returned" =>
        /\ \A c \in Customers : Occurrences(qa.routes, c) <= 1
        /\ \A c \in Customers :
              Occurrences(qa.inserted, c) = 0 =>
                  c \in qa.visited /\ Occurrences(qa.walked, c) = 0
        /\ (\A r \in 1..Len(qa.inserted) :
                qa.inserted[r][Len(qa.inserted[r])] = problem.depot_index)
              => \A c \in Customers : Occurrences(qa.routes, c) = Occurrences(qa.inserted, c)

\* two routes that may be merged: depot to depot both, no customer in common,
\* and the merged route within num_locations stops as _merge_routes counts them
MayBeMerged(route1, route2) ==
    /\ route1[1] = problem.depot_index /\ route1[Len(route1)] = problem.depot_index
    /\ route2[1] = problem.depot_index /\ route2[Len(route2)] = problem.depot_index
    /\ (Range(route1) \cap Range(route2)) \ {problem.depot_index} = {}
    /\ NoDuplicates(Interior(route1)) /\ NoDuplicates(Interior(route2))
    /\ Len(route1) + Len(route2) - 2 <= problem.D

\* C24: with more routes than num_vehicles after the insertion the merge stops
\* only at num_vehicles routes or fewer, or when no two remaining routes can be
\* merged; two depot-closed routes with disjoint customers whose merge stays
\* within D stops do not both remain.
C24_MergeStopsOnlyWhenNoMergeIsLegal ==
    (qa.pc = "returned" /\ Len(qa.inserted) > problem.num_vehicles) =>
        \/ Len(qa.routes) <= problem.num_vehicles
        \/ \A i, j \in 1..Len(qa.routes) : i # j => ~MayBeMerged(qa.routes[i], qa.routes[j])

\* what the merge does: depot-closed routes are never merged (the routes are
\* returned as they are, sorted by length), and no merge adds a route
ClosedRoutesAreNeverMerged ==
    (qa.pc = "returned" /\ Len(qa.inserted) > problem.num_vehicles) =>
        /\ Len(qa.routes) <= Len(qa.inserted)
        /\ (\A r \in 1..Len(qa.inserted) :
                qa.inserted[r][Len(qa.inserted[r])] = problem.depot_index)
              => qa.routes = SortByLen(qa.inserted)

\* a pass of the while loop of SimulatedAnnealingSolver.solve
SAPass == cl.solver = "SA" /\ cl.pc = "loop" /\ cl'.pc = "loop"

\* the pass leaves the current and the best solution and their costs alone
SAPassKeepsSolutions ==
    /\ cl'.current_solution = cl.current_solution /\ cl'.current_cost = cl.current_cost
    /\ cl'.best_solution = cl.best_solution /\ cl'.best_cost = cl.best_cost

\* the loop is left as soon as its guard is false, and never otherwise
SALoopStopsAtGuard ==
    (cl.solver = "SA" /\ cl.pc = "loop") =>
        /\ ~SALoopGuard => cl'.pc = "done"
        /\ SALoopGuard => cl'.pc = "loop"

\* C25: solve generates at most max_iterations neighbours; every neighbour
\* adds one to the iteration count; an invalid neighbour changes neither the
\* current nor the best solution; the loop stops as soon as the temperature is
\* at or below final_temp or the count reaches max_iterations; and every
\* iteration multiplies the temperature by cooling_rate.
C25_EveryIterationCounts ==
    /\ [](cl.solver = "SA" => cl.iteration <= cl.max_iterations)
    /\ [][SALoopStopsAtGuard]_vars
    /\ [][SAPass => /\ cl'.iteration = cl.iteration + 1
                    /\ ~cl'.generated.is_valid => SAPassKeepsSolutions
                    /\ cl'.coolings = cl.coolings + 1]_vars

\* C25 as the code has it: the same, but the temperature is multiplied by
\* cooling_rate only on an iteration whose neighbour is valid, and is left as
\* it is on an iteration whose neighbour is invalid.
C25_ValidIterationsCool ==
    /\ [](cl.solver = "SA" => cl.iteration <= cl.max_iterations)
    /\ [][SALoopStopsAtGuard]_vars
    /\ [][SAPass => /\ cl'.iteration = cl.iteration + 1
                    /\ ~cl'.generated.is_valid => SAPassKeepsSolutions
                    /\ cl'.coolings = cl.coolings + (IF cl'.generated.is_valid THEN 1 ELSE 0)]_vars

\* two iterations, the latest with an invalid neighbour, and one cooling
C25_Witness ==
    /\ cl.solver = "SA" /\ cl.pc = "loop"
    /\ cl.iteration = 2 /\ cl.coolings = 1
    /\ ~cl.generated.is_valid

\* the latest neighbour came from the 2-opt move on a route of at least three customers
TwoOptOnLongRoute ==
    /\ cl.solver = "SA" /\ cl.generated.move_type = "two_opt"
    /\ Len(cl.generated.passed[cl.generated.route_idx]) - 2 >= 3

\* the solutions that are `solution` with one contiguous segment of the
\* customers of its route r reversed
SegmentReversals(solution, r) ==
    {[solution EXCEPT ![r] = ReverseSegment(solution[r], ij[1], ij[2])] :
        ij \in {x \in (1..(Len(solution[r]) - 2)) \X (1..(Len(solution[r]) - 2)) : x[1] < x[2]}}

\* C26: the 2-opt move on a route of at least three customers returns the given
\* solution with one contiguous segment of that route's customers reversed and
\* leaves the solution passed in as it was; at every iteration of solve
\* current_cost is the cost of current_solution.
C26_TwoOptReturnsTheReversal ==
    /\ TwoOptOnLongRoute =>
          /\ cl.generated.neighbor \in SegmentReversals(cl.generated.passed, cl.generated.route_idx)
          /\ cl.generated.argument = cl.generated.passed
    /\ (cl.solver = "SA" /\ cl.pc = "loop") =>
          cl.current_cost = CalculateSolutionCost(cl.current_solution, DM)

\* what the 2-opt move does: the reversal is made in the solution passed in and
\* the neighbour returned is the copy made before; solve then accepts that
\* copy, which costs what the current solution cost, so that current_cost is
\* the cost of current_solution at every iteration all the same
TwoOptReversesItsArgument ==
    /\ TwoOptOnLongRoute =>
          /\ cl.generated.neighbor = cl.generated.passed
          /\ cl.generated.argument \in SegmentReversals(cl.generated.passed, cl.generated.route_idx)
          /\ cl.pc = "loop" => cl.current_solution = cl.generated.neighbor
    /\ (cl.solver = "SA" /\ cl.pc = "loop") =>
          cl.current_cost = CalculateSolutionCost(cl.current_solution, DM)

GAReturned == cl.solver = "GA" /\ cl.pc = "done" /\ cl.generations >= 1

\* C27: for generations >= 1 the returned total_cost is the cost of the returned
\* solution and is at most the cost of every individual of every population of
\* the run, the population produced by the last generation included.
C27_ReturnsBestEverIndividual ==
    GAReturned =>
        /\ cl.result.total_cost = CalculateSolutionCost(cl.result.solution, DM)
        /\ cl.result.total_cost = cl.least_evaluated
        /\ \A k \in 1..Len(cl.population) :
               CLeq(cl.result.total_cost, CalculateSolutionCost(cl.population[k], DM))

\* the part of C27 that holds: the returned total_cost is the cost of the
\* returned solution and the least cost among the individuals of the populations
\* the loop evaluated, which are those the generations started from
ReturnsBestEvaluatedIndividual ==
    GAReturned =>
        /\ cl.result.total_cost = CalculateSolutionCost(cl.result.solution, DM)
        /\ cl.result.total_cost = cl.least_evaluated

\* the sleeps of _make_request so far are 2^0, 2^1, ... one after each failed
\* attempt that is not the last one
BackoffIsExponential ==
    /\ \A k \in 1..Len(qa.sleeps) : qa.sleeps[k] = 2 ^ (k - 1)
    /\ qa.pc \in {"returned", "raised"} =>
          Len(qa.sleeps) = IF qa.outcomes = <<>> THEN 0
                           ELSE Len(qa.outcomes) - 1
    /\ Len(qa.sleeps) < Max2(1, qa.max_retries)

\* C28: _make_request makes at most max_retries attempts, returns the body of
\* the first attempt answered with status 200 and attempts no more, sleeps
\* 2^attempt seconds after a failed attempt that is not the last, raises only
\* after max_retries failed attempts, and raises at once, without any attempt,
\* when no session is open.
C28_RetriesThenRaises ==
    /\ Len(qa.outcomes) <= qa.max_retries
    /\ BackoffIsExponential
    /\ \A k \in 1..Len(qa.outcomes) :
          qa.outcomes[k] \in {"status_200", "unreadable_200"} =>
              k = Len(qa.outcomes) /\ qa.pc = "returned"
    /\ qa.pc = "returned" => qa.outcomes[Len(qa.outcomes)] \in {"status_200", "unreadable_200"}
    /\ (qa.pc \in {"loop", "backoff", "returned"} \/ qa.outcomes # <<>>) => qa.session = "open"
    /\ qa.pc = "raised" =>
          IF qa.session = "open"
          THEN Len(qa.outcomes) = qa.max_retries
          ELSE qa.outcomes = <<>> /\ qa.sleeps = <<>>

\* the part of C28 that holds: at most max_retries attempts, exponential
\* sleeps between them and none after the last, the return at the first
\* status 200 whose body can be read, the exception after max_retries failed
\* attempts, and the immediate RuntimeError when self.session is None
RetriesThenRaisesUnlessClosed ==
    /\ Len(qa.outcomes) <= qa.max_retries
    /\ BackoffIsExponential
    /\ \A k \in 1..Len(qa.outcomes) :
          qa.outcomes[k] = "status_200" => k = Len(qa.outcomes) /\ qa.pc = "returned"
    /\ qa.pc = "returned" => qa.outcomes[Len(qa.outcomes)] = "status_200"
    /\ qa.pc = "raised" =>
          IF qa.session = "none"
          THEN qa.raised = "RuntimeError" /\ qa.outcomes = <<>> /\ qa.sleeps = <<>>
          ELSE /\ qa.raised = "Exception" /\ Len(qa.outcomes) = qa.max_retries
               /\ \A k \in 1..Len(qa.outcomes) : qa.outcomes[k] # "status_200"

\* C29: for every interleaving of the concurrent calculate_distance calls on
\* the one router, the session a call's request runs on is open until the
\* request has completed, and every session that was opened is closed in the end.
C29_SessionsOutliveTheirRequests ==
    /\ \A c \in DOMAIN qa.tasks :
          qa.tasks[c].pc = "in_flight" => qa.sessions[qa.tasks[c].using] = "open"
    /\ (\A c \in DOMAIN qa.tasks : qa.tasks[c].pc = "done") =>
          \A s \in DOMAIN qa.sessions : qa.sessions[s] = "closed"

\* what holds of the shared router: at most SemaphoreCap calls are inside the
\* router context, every call sends its first request on the session it
\* opened, one session is created per call, and the session created last is
\* closed when every call is done
LastSessionIsClosed ==
    /\ Cardinality({c \in DOMAIN qa.tasks : InContext(qa.tasks[c])}) <= SemaphoreCap
    /\ \A c \in DOMAIN qa.tasks :
          (qa.tasks[c].pc = "in_flight" /\ qa.tasks[c].attempt = 0) =>
              qa.tasks[c].using = qa.tasks[c].opened
    /\ Len(qa.sessions) = Cardinality({c \in DOMAIN qa.tasks : qa.tasks[c].pc # "queued"})
    /\ (\A c \in DOMAIN qa.tasks : qa.tasks[c].pc = "done") =>
          qa.sessions[Len(qa.sessions)] = "closed"

\* C30: compare_classical_algorithms called with its default list obtains a
\* solution, not an error entry, from each of nearest_neighbor,
\* genetic_algorithm and simulated_annealing, and summary.best_algorithm names
\* the algorithm of the smallest total_cost among the three results that are valid.
C30_AllThreeAlgorithmsSolve ==
    (cl.solver = "compare" /\ cl.pc = "done") =>
        /\ \A a \in Range(DefaultAlgorithms) : "error" \notin DOMAIN cl.results[a]
        /\ cl.summary # NoSummary
        /\ \A a \in Range(DefaultAlgorithms) :
              IsValidSolution(cl.results[a].solution, problem.D, problem.depot_index) =>
                  CLeq(cl.results[cl.summary.best_algorithm].total_cost,
                       cl.results[a].total_cost)

\* what the comparison returns: the Nearest Neighbor result, an error entry
\* for each of the two searches, and a summary that names nearest_neighbor
\* as the best of one successful algorithm, whatever the validity of its tour
OnlyNearestNeighborSolves ==
    (cl.solver = "compare" /\ cl.pc = "done") =>
        /\ cl.results["nearest_neighbor"] =
               NearestNeighborSolve(DM, problem.num_vehicles, problem.depot_index)
        /\ "error" \in DOMAIN cl.results["genetic_algorithm"]
        /\ "error" \in DOMAIN cl.results["simulated_annealing"]
        /\ cl.summary = [best_algorithm |-> "nearest_neighbor",
                         best_cost |-> cl.results["nearest_neighbor"].total_cost,
                         algorithms_tested |-> 3,
                         successful_algorithms |-> 1]

====
